---- MODULE Spec2Model ----
(***************************************************************************)
(* Model of models/gpt_model.py (GPTModel: construction, generate,         *)
(* generate_stream) as a state machine.                                    *)
(*                                                                         *)
(* Text is a sequence of characters.  A character is a one-character       *)
(* string; a character that cannot be written so is named by its code      *)
(* point ("<U+00A0>"), and a byte that is not UTF-8 is "<0xFF>".  The      *)
(* bytes of a body may write a few words ("choices", "delta", "content",   *)
(* "message", "null", "true", "false", "NaN", "Infinity", "DONE") as one   *)
(* element, and a long run of one character ("<1 x 4301>") as one element; *)
(* decoding spells them out, so that text is characters only.              *)
(***************************************************************************)
EXTENDS Integers, Sequences, FiniteSets, TLC

(***************************************************************************)
(* Characters                                                              *)
(***************************************************************************)
QUOTE == "\""
BACKSLASH == "\\"
NL == "\n"
CR == "\r"
SP == " "
TAB == "\t"
FF == "\f"
VT == "<U+000B>"
BS == "<U+0008>"

\* The separators U+001C..U+001F.
Separators == <<"<U+001C>", "<U+001D>", "<U+001E>", "<U+001F>">>

\* The spaces U+2000..U+200A.
GeneralSpaces ==
    <<"<U+2000>", "<U+2001>", "<U+2002>", "<U+2003>", "<U+2004>", "<U+2005>",
      "<U+2006>", "<U+2007>", "<U+2008>", "<U+2009>", "<U+200A>">>

\* Any other character below U+0020, and any character outside the alphabet
\* of the model.
OtherControl == "<U+0001>"
NonAlphabet == "<U+FFFD>"

\* A byte that is not valid UTF-8 where it stands (such as 0xFF).
BadByte == "<0xFF>"

\* The printable ASCII characters U+0020..U+007E, in order.
Ascii == <<
    " ", "!", "\"", "#", "$", "%", "&", "'", "(", ")", "*", "+",
    ",", "-", ".", "/", "0", "1", "2", "3", "4", "5", "6", "7",
    "8", "9", ":", ";", "<", "=", ">", "?", "@", "A", "B", "C",
    "D", "E", "F", "G", "H", "I", "J", "K", "L", "M", "N", "O",
    "P", "Q", "R", "S", "T", "U", "V", "W", "X", "Y", "Z", "[",
    "\\", "]", "^", "_", "<U+0060>", "a", "b", "c", "d", "e", "f", "g",
    "h", "i", "j", "k", "l", "m", "n", "o", "p", "q", "r", "s",
    "t", "u", "v", "w", "x", "y", "z", "{", "|", "}", "~" >>

\* chr(n), within the alphabet of the model
Chr(n) ==
    CASE n = 8 -> BS
      [] n = 9 -> TAB
      [] n = 10 -> NL
      [] n = 11 -> VT
      [] n = 12 -> FF
      [] n = 13 -> CR
      [] n \in 28..31 -> Separators[n - 27]
      [] n \in (0..31) \ ({8, 9, 10, 11, 12, 13} \cup (28..31)) -> OtherControl
      [] n \in 32..126 -> Ascii[n - 31]
      [] n = 133 -> "<U+0085>"
      [] n = 160 -> "<U+00A0>"
      [] n = 5760 -> "<U+1680>"
      [] n \in 8192..8202 -> GeneralSpaces[n - 8191]
      [] n = 8232 -> "<U+2028>"
      [] n = 8233 -> "<U+2029>"
      [] n = 8239 -> "<U+202F>"
      [] n = 8287 -> "<U+205F>"
      [] n = 12288 -> "<U+3000>"
      [] OTHER -> NonAlphabet

\* The characters below U+0020, which a JSON string may not contain.
ControlChars == {Chr(n) : n \in 0..31}

\* str.strip() with no argument strips the characters c with c.isspace().
Whitespace ==
    {Chr(n) : n \in (9..13) \cup (28..32) \cup {133, 160, 5760} \cup (8192..8202)
                    \cup {8232, 8233, 8239, 8287, 12288}}

\* The whitespace json.loads skips between tokens.
JsonWhitespace == {SP, TAB, NL, CR}

\* The whitespace bytes.strip() strips.
BytesWhitespace == {SP, TAB, NL, CR, VT, FF}

Digits == {"0", "1", "2", "3", "4", "5", "6", "7", "8", "9"}

\* The literal prefix tested by line.startswith("data: ").
DataPrefix == <<"d", "a", "t", "a", ":", SP>>

\* The literal sentinel line "data: [DONE]".
DoneLine == DataPrefix \o <<"[", "DONE", "]">>

(***************************************************************************)
(* Text helpers                                                            *)
(***************************************************************************)
Drop(p, n) == SubSeq(p, n + 1, Len(p))
Take(p, n) == SubSeq(p, 1, n)

RECURSIVE StripLeft(_)
StripLeft(p) ==
    IF p /= <<>> /\ Head(p) \in Whitespace THEN StripLeft(Tail(p)) ELSE p

RECURSIVE StripRight(_)
StripRight(p) ==
    IF p /= <<>> /\ p[Len(p)] \in Whitespace
    THEN StripRight(Take(p, Len(p) - 1))
    ELSE p

\* (mutant) str.rstrip(): only the end of the line is stripped
StripTrailingOnly(p) == StripRight(p)

\* str.strip()
Strip(p) == StripRight(StripLeft(p))

\* bytes.strip(), as aiohttp applies it to a body before json.loads
RECURSIVE BytesStrip(_)
BytesStrip(p) ==
    IF p = <<>> THEN p
    ELSE IF Head(p) \in BytesWhitespace THEN BytesStrip(Tail(p))
    ELSE IF p[Len(p)] \in BytesWhitespace THEN BytesStrip(Take(p, Len(p) - 1))
    ELSE p

\* str.startswith(prefix)
StartsWith(p, prefix) ==
    Len(p) >= Len(prefix) /\ Take(p, Len(prefix)) = prefix

\* n times the character ch
Times(n, ch) == [i \in 1..n |-> ch]

\* Runs of one character, written as one element of a body: more digits than
\* int() converts, more brackets than the JSON scanner can nest, and with
\* the rest of its line more bytes than the line reader hands out.
DigitsRun == "<1 x 4301>"
BracketsRun == "<[ x 1000>"
LongRun == "<a x 131072>"

\* The characters of one element of a body.
Letters(a) ==
    CASE a = "choices" -> <<"c", "h", "o", "i", "c", "e", "s">>
      [] a = "delta" -> <<"d", "e", "l", "t", "a">>
      [] a = "content" -> <<"c", "o", "n", "t", "e", "n", "t">>
      [] a = "message" -> <<"m", "e", "s", "s", "a", "g", "e">>
      [] a = "null" -> <<"n", "u", "l", "l">>
      [] a = "true" -> <<"t", "r", "u", "e">>
      [] a = "false" -> <<"f", "a", "l", "s", "e">>
      [] a = "NaN" -> <<"N", "a", "N">>
      [] a = "Infinity" -> <<"I", "n", "f", "i", "n", "i", "t", "y">>
      [] a = "DONE" -> <<"D", "O", "N", "E">>
      [] a = DigitsRun -> Times(4301, "1")
      [] a = BracketsRun -> Times(1000, "[")
      [] a = LongRun -> Times(131072, "a")
      [] OTHER -> <<a>>

\* The characters of the elements lo..hi of a text.
RECURSIVE SpellIn(_, _, _)
SpellIn(p, lo, hi) ==
    IF lo > hi THEN <<>>
    ELSE IF lo = hi THEN Letters(p[lo])
    ELSE SpellIn(p, lo, (lo + hi) \div 2) \o SpellIn(p, (lo + hi) \div 2 + 1, hi)

\* The characters of a text.
Spell(p) == SpellIn(p, 1, Len(p))

\* The bytes are valid UTF-8.
IsUtf8(raw) == \A i \in 1..Len(raw) : raw[i] /= BadByte

\* bytes.decode('utf-8'): [exc, text]
Utf8Decode(raw) ==
    IF ~IsUtf8(raw)
    THEN [exc |-> "UnicodeDecodeError", text |-> <<>>]
    ELSE [exc |-> "", text |-> Spell(raw)]

\* What the bytes of one element of a body are as ISO-8859-1, where every
\* byte is a character: a character of two or three bytes of UTF-8 is two or
\* three characters, and the byte that is not UTF-8 is U+00FF.
Latin1(a) ==
    CASE a = BadByte -> <<Chr(255)>>
      [] a = "<U+0085>" -> <<Chr(194), Chr(133)>>
      [] a = "<U+00A0>" -> <<Chr(194), Chr(160)>>
      [] a = "<U+1680>" -> <<Chr(225), Chr(154), Chr(128)>>
      [] \E k \in 1..11 : a = GeneralSpaces[k] ->
           <<Chr(226), Chr(128), Chr(127 + (CHOOSE k \in 1..11 : a = GeneralSpaces[k]))>>
      [] a = "<U+2028>" -> <<Chr(226), Chr(128), Chr(168)>>
      [] a = "<U+2029>" -> <<Chr(226), Chr(128), Chr(169)>>
      [] a = "<U+202F>" -> <<Chr(226), Chr(128), Chr(175)>>
      [] a = "<U+205F>" -> <<Chr(226), Chr(129), Chr(159)>>
      [] a = "<U+3000>" -> <<Chr(227), Chr(128), Chr(128)>>
      [] a = NonAlphabet -> <<Chr(239), Chr(191), Chr(189)>>
      [] OTHER -> Letters(a)

\* The characters of the elements lo..hi of a body read as ISO-8859-1.
RECURSIVE Latin1In(_, _, _)
Latin1In(p, lo, hi) ==
    IF lo > hi THEN <<>>
    ELSE IF lo = hi THEN Latin1(p[lo])
    ELSE Latin1In(p, lo, (lo + hi) \div 2) \o Latin1In(p, (lo + hi) \div 2 + 1, hi)

\* bytes.decode(encoding) for the encodings "utf-8" and "latin-1": [exc, text]
Decode(raw, encoding) ==
    IF encoding = "utf-8" THEN Utf8Decode(raw)
    ELSE [exc |-> "", text |-> Latin1In(raw, 1, Len(raw))]

\* len() of the bytes of the elements lo..hi of a body.
RECURSIVE BytesIn(_, _, _)
BytesIn(p, lo, hi) ==
    IF lo > hi THEN 0
    ELSE IF lo = hi THEN Len(Latin1(p[lo]))
    ELSE BytesIn(p, lo, (lo + hi) \div 2) + BytesIn(p, (lo + hi) \div 2 + 1, hi)

ByteLen(p) == BytesIn(p, 1, Len(p))

\* str(n) for n >= 0 (the f-string formatting of response.status)
RECURSIVE IntToStr(_)
DigitChar(d) ==
    CASE d = 0 -> "0" [] d = 1 -> "1" [] d = 2 -> "2" [] d = 3 -> "3"
      [] d = 4 -> "4" [] d = 5 -> "5" [] d = 6 -> "6" [] d = 7 -> "7"
      [] d = 8 -> "8" [] OTHER -> "9"
IntToStr(n) ==
    IF n < 10 THEN <<DigitChar(n)>>
    ELSE Append(IntToStr(n \div 10), DigitChar(n % 10))

\* int(ds) for a run of digits ds
RECURSIVE StrToInt(_)
DigitValue(ch) == CHOOSE d \in 0..9 : DigitChar(d) = ch
StrToInt(ds) ==
    IF ds = <<>> THEN 0
    ELSE 10 * StrToInt(Take(ds, Len(ds) - 1)) + DigitValue(ds[Len(ds)])

\* Length of the run of members of S at the start of p[lo..hi].
RECURSIVE RunIn(_, _, _, _)
RunIn(p, S, lo, hi) ==
    IF lo > hi THEN 0
    ELSE IF lo = hi THEN (IF p[lo] \in S THEN 1 ELSE 0)
    ELSE LET mid == (lo + hi) \div 2
             Then(left) == IF left < mid - lo + 1 THEN left
                           ELSE left + RunIn(p, S, mid + 1, hi)
         IN  Then(RunIn(p, S, lo, mid))

LeadRun(p, S) == RunIn(p, S, 1, Len(p))

\* Length of the run of digits at the start of p.
DigitRun(p) == LeadRun(p, Digits)

\* A run of digits without its leading, or its trailing, zeros.
RECURSIVE NoLeadingZeros(_)
NoLeadingZeros(ds) ==
    IF ds /= <<>> /\ Head(ds) = "0" THEN NoLeadingZeros(Tail(ds)) ELSE ds

RECURSIVE NoTrailingZeros(_)
NoTrailingZeros(ds) ==
    IF ds /= <<>> /\ ds[Len(ds)] = "0"
    THEN NoTrailingZeros(Take(ds, Len(ds) - 1))
    ELSE ds

\* The first index in lo..hi at which a and b differ, 0 when there is none.
RECURSIVE DifferIn(_, _, _, _)
DifferIn(a, b, lo, hi) ==
    IF lo > hi THEN 0
    ELSE IF lo = hi THEN (IF a[lo] /= b[lo] THEN lo ELSE 0)
    ELSE LET mid == (lo + hi) \div 2
             Else(left) == IF left /= 0 THEN left ELSE DifferIn(a, b, mid + 1, hi)
         IN  Else(DifferIn(a, b, lo, mid))

\* a < b for two runs of digits read as decimal fractions 0.a and 0.b
FractionLess(a, b) ==
    LET Less(k) ==
            IF k /= 0 THEN DigitValue(a[k]) < DigitValue(b[k])
            ELSE \E i \in (Len(a) + 1)..Len(b) : b[i] /= "0"
    IN  Less(DifferIn(a, b, 1, IF Len(a) < Len(b) THEN Len(a) ELSE Len(b)))

(***************************************************************************)
(* JSON values as Python objects: every value is a record of one shape.    *)
(*   t = "null" | "bool" | "num" | "float" | "str" | "arr" | "obj";        *)
(*   s = the text of a string, the literal of a bool, the sign and digits  *)
(*   of an int, or the value of a float written as sign, significant       *)
(*   digits, "e", exponent of the last digit (zeros, infinities and NaN    *)
(*   by name);  kids = the items of a list, or the members of a dict,      *)
(*   each member [t |-> "pair", s |-> key, kids |-> <<value>>].            *)
(***************************************************************************)
JNull == [t |-> "null", s |-> <<>>, kids |-> <<>>]
JBool(b) == [t |-> "bool", s |-> <<b>>, kids |-> <<>>]
JNum(d) == [t |-> "num", s |-> d, kids |-> <<>>]
JFloat(x) == [t |-> "float", s |-> x, kids |-> <<>>]
JStr(x) == [t |-> "str", s |-> x, kids |-> <<>>]
JArr(items) == [t |-> "arr", s |-> <<>>, kids |-> items]
JObj(members) == [t |-> "obj", s |-> <<>>, kids |-> members]
JPair(k, v) == [t |-> "pair", s |-> k, kids |-> <<v>>]

(***************************************************************************)
(* json.loads on a text: a recursive-descent parse.  A result is           *)
(* [ok, exc, val, rest]; ok = FALSE stands for the exception exc, which is *)
(* json.JSONDecodeError for a text that is not JSON, ValueError for an     *)
(* integer of more digits than int() converts, and RecursionError for      *)
(* lists and dicts nested deeper than the interpreter has frames left, or  *)
(* so deep that the scanner has no frames left for what it calls.          *)
(***************************************************************************)
ParseRaise(e) == [ok |-> FALSE, exc |-> e, val |-> JNull, rest |-> <<>>]
ParseFail == ParseRaise("JSONDecodeError")
ParseOk(v, r) == [ok |-> TRUE, exc |-> "", val |-> v, rest |-> r]

\* sys.get_int_max_str_digits(): the most digits int() converts.
MaxStrDigits == 4300

\* sys.getrecursionlimit(), and the frames in use where the scanner of
\* json.loads starts, called from line 105 and from response.json() of line
\* 61, when asyncio.run runs the caller of the method; each list or dict
\* being parsed takes one more.  A caller deeper in its own calls leaves
\* less room.
RecursionLimit == 1000
StreamFrames == 15
JsonFrames == 16

\* The frames the scanner takes, inside the lists and dicts it is in, to
\* raise a JSONDecodeError itself (the call of the class, its __init__ and
\* the str method that __init__ calls), and to look up the value of NaN,
\* Infinity or -Infinity.  "Expecting value" is raised outside the scanner
\* and takes none.
ErrorFrames == 3
ConstantFrames == 1

\* The JSONDecodeError the scanner raises with room for that many more
\* frames.
ScanFail(room) ==
    IF room < ErrorFrames THEN ParseRaise("RecursionError") ELSE ParseFail

RECURSIVE SkipWs(_)
SkipWs(p) ==
    IF p /= <<>> /\ Head(p) \in JsonWhitespace THEN SkipWs(Tail(p)) ELSE p

\* Index of the first occurrence of c in p[lo..hi], 0 when there is none.
RECURSIVE FindIn(_, _, _, _)
FindIn(p, c, lo, hi) ==
    IF lo > hi THEN 0
    ELSE IF lo = hi THEN (IF p[lo] = c THEN lo ELSE 0)
    ELSE LET mid == (lo + hi) \div 2
             Else(left) == IF left /= 0 THEN left ELSE FindIn(p, c, mid + 1, hi)
         IN  Else(FindIn(p, c, lo, mid))

\* bytes.find(c) + 1
Find(p, c) == FindIn(p, c, 1, Len(p))

HexDigits ==
    Digits \cup {"a", "b", "c", "d", "e", "f", "A", "B", "C", "D", "E", "F"}

HexValue(ch) ==
    CASE ch \in Digits -> DigitValue(ch)
      [] ch \in {"a", "A"} -> 10
      [] ch \in {"b", "B"} -> 11
      [] ch \in {"c", "C"} -> 12
      [] ch \in {"d", "D"} -> 13
      [] ch \in {"e", "E"} -> 14
      [] OTHER -> 15

\* p[i..i+3] are four hexadecimal digits
IsHex4(p, i) == Len(p) >= i + 3 /\ \A j \in i..(i + 3) : p[j] \in HexDigits

Hex4(p, i) ==
    4096 * HexValue(p[i]) + 256 * HexValue(p[i + 1])
        + 16 * HexValue(p[i + 2]) + HexValue(p[i + 3])

\* The character an escape \e stands for; "" when \e is no escape.
Unescape(e) ==
    CASE e = QUOTE -> QUOTE
      [] e = BACKSLASH -> BACKSLASH
      [] e = "/" -> "/"
      [] e = "b" -> BS
      [] e = "f" -> FF
      [] e = "n" -> NL
      [] e = "r" -> CR
      [] e = "t" -> TAB
      [] OTHER -> ""

\* p is the text after an opening quote, acc the characters decoded so far.
RECURSIVE ScanString(_, _)
ScanString(p, acc) ==
    IF p = <<>> THEN ParseFail
    ELSE IF Head(p) = QUOTE THEN ParseOk(JStr(acc), Tail(p))
    ELSE IF Head(p) \in ControlChars THEN ParseFail
    ELSE IF Head(p) /= BACKSLASH THEN ScanString(Tail(p), Append(acc, Head(p)))
    ELSE IF Len(p) < 2 THEN ParseFail
    ELSE IF p[2] /= "u"
         THEN IF Unescape(p[2]) = "" THEN ParseFail
              ELSE ScanString(Drop(p, 2), Append(acc, Unescape(p[2])))
    ELSE IF ~IsHex4(p, 3) THEN ParseFail
    ELSE LET uni == Hex4(p, 3) IN
         IF uni \in 55296..56319 /\ Len(p) >= 8
                /\ p[7] = BACKSLASH /\ p[8] = "u"
         THEN IF ~IsHex4(p, 9) THEN ParseFail
              ELSE IF Hex4(p, 9) \in 56320..57343
                   THEN ScanString(Drop(p, 12), Append(acc, NonAlphabet))
                   ELSE ScanString(Drop(p, 6), Append(acc, Chr(uni)))
         ELSE ScanString(Drop(p, 6), Append(acc, Chr(uni)))

\* The string after an opening quote, scanned with room for that many more
\* frames.
ParseString(p, room) ==
    LET s == ScanString(p, <<>>) IN
    IF s.ok THEN s ELSE ScanFail(room)

\* The digits of 2^1024 - 2^970, the least decimal that rounds to an infinity;
\* it is 0.d * 10^309 for these digits d.
OverflowDigits == <<
      "1", "7", "9", "7", "6", "9", "3", "1", "3", "4", "8", "6", "2", "3", "1", "5",
      "8", "0", "7", "9", "3", "7", "2", "8", "9", "7", "1", "4", "0", "5", "3", "0",
      "3", "4", "1", "5", "0", "7", "9", "9", "3", "4", "1", "3", "2", "7", "1", "0",
      "0", "3", "7", "8", "2", "6", "9", "3", "6", "1", "7", "3", "7", "7", "8", "9",
      "8", "0", "4", "4", "4", "9", "6", "8", "2", "9", "2", "7", "6", "4", "7", "5",
      "0", "9", "4", "6", "6", "4", "9", "0", "1", "7", "9", "7", "7", "5", "8", "7",
      "2", "0", "7", "0", "9", "6", "3", "3", "0", "2", "8", "6", "4", "1", "6", "6",
      "9", "2", "8", "8", "7", "9", "1", "0", "9", "4", "6", "5", "5", "5", "5", "4",
      "7", "8", "5", "1", "9", "4", "0", "4", "0", "2", "6", "3", "0", "6", "5", "7",
      "4", "8", "8", "6", "7", "1", "5", "0", "5", "8", "2", "0", "6", "8", "1", "9",
      "0", "8", "9", "0", "2", "0", "0", "0", "7", "0", "8", "3", "8", "3", "6", "7",
      "6", "2", "7", "3", "8", "5", "4", "8", "4", "5", "8", "1", "7", "7", "1", "1",
      "5", "3", "1", "7", "6", "4", "4", "7", "5", "7", "3", "0", "2", "7", "0", "0",
      "6", "9", "8", "5", "5", "5", "7", "1", "3", "6", "6", "9", "5", "9", "6", "2",
      "2", "8", "4", "2", "9", "1", "4", "8", "1", "9", "8", "6", "0", "8", "3", "4",
      "9", "3", "6", "4", "7", "5", "2", "9", "2", "7", "1", "9", "0", "7", "4", "1",
      "6", "8", "4", "4", "4", "3", "6", "5", "5", "1", "0", "7", "0", "4", "3", "4",
      "2", "7", "1", "1", "5", "5", "9", "6", "9", "9", "5", "0", "8", "0", "9", "3",
      "0", "4", "2", "8", "8", "0", "1", "7", "7", "9", "0", "4", "1", "7", "4", "4",
      "9", "7", "7", "9", "2" >>

\* The digits of 2^-1075 (those of 5^1075), the greatest decimal that rounds
\* to a zero; it is 0.d * 10^-323 for these digits d.
UnderflowDigits == <<
      "2", "4", "7", "0", "3", "2", "8", "2", "2", "9", "2", "0", "6", "2", "3", "2",
      "7", "2", "0", "8", "8", "2", "8", "4", "3", "9", "6", "4", "3", "4", "1", "1",
      "0", "6", "8", "6", "1", "8", "2", "5", "2", "9", "9", "0", "1", "3", "0", "7",
      "1", "6", "2", "3", "8", "2", "2", "1", "2", "7", "9", "2", "8", "4", "1", "2",
      "5", "0", "3", "3", "7", "7", "5", "3", "6", "3", "5", "1", "0", "4", "3", "7",
      "5", "9", "3", "2", "6", "4", "9", "9", "1", "8", "1", "8", "0", "8", "1", "7",
      "9", "9", "6", "1", "8", "9", "8", "9", "8", "2", "8", "2", "3", "4", "7", "7",
      "2", "2", "8", "5", "8", "8", "6", "5", "4", "6", "3", "3", "2", "8", "3", "5",
      "5", "1", "7", "7", "9", "6", "9", "8", "9", "8", "1", "9", "9", "3", "8", "7",
      "3", "9", "8", "0", "0", "5", "3", "9", "0", "9", "3", "9", "0", "6", "3", "1",
      "5", "0", "3", "5", "6", "5", "9", "5", "1", "5", "5", "7", "0", "2", "2", "6",
      "3", "9", "2", "2", "9", "0", "8", "5", "8", "3", "9", "2", "4", "4", "9", "1",
      "0", "5", "1", "8", "4", "4", "3", "5", "9", "3", "1", "8", "0", "2", "8", "4",
      "9", "9", "3", "6", "5", "3", "6", "1", "5", "2", "5", "0", "0", "3", "1", "9",
      "3", "7", "0", "4", "5", "7", "6", "7", "8", "2", "4", "9", "2", "1", "9", "3",
      "6", "5", "6", "2", "3", "6", "6", "9", "8", "6", "3", "6", "5", "8", "4", "8",
      "0", "7", "5", "7", "0", "0", "1", "5", "8", "5", "7", "6", "9", "2", "6", "9",
      "9", "0", "3", "7", "0", "6", "3", "1", "1", "9", "2", "8", "2", "7", "9", "5",
      "5", "8", "5", "5", "1", "3", "3", "2", "9", "2", "7", "8", "3", "4", "3", "3",
      "8", "4", "0", "9", "3", "5", "1", "9", "7", "8", "0", "1", "5", "5", "3", "1",
      "2", "4", "6", "5", "9", "7", "2", "6", "3", "5", "7", "9", "5", "7", "4", "6",
      "2", "2", "7", "6", "6", "4", "6", "5", "2", "7", "2", "8", "2", "7", "2", "2",
      "0", "0", "5", "6", "3", "7", "4", "0", "0", "6", "4", "8", "5", "4", "9", "9",
      "9", "7", "7", "0", "9", "6", "5", "9", "9", "4", "7", "0", "4", "5", "4", "0",
      "2", "0", "8", "2", "8", "1", "6", "6", "2", "2", "6", "2", "3", "7", "8", "5",
      "7", "3", "9", "3", "4", "5", "0", "7", "3", "6", "3", "3", "9", "0", "0", "7",
      "9", "6", "7", "7", "6", "1", "9", "3", "0", "5", "7", "7", "5", "0", "6", "7",
      "4", "0", "1", "7", "6", "3", "2", "4", "6", "7", "3", "6", "0", "0", "9", "6",
      "8", "9", "5", "1", "3", "4", "0", "5", "3", "5", "5", "3", "7", "4", "5", "8",
      "5", "1", "6", "6", "6", "1", "1", "3", "4", "2", "2", "3", "7", "6", "6", "6",
      "7", "8", "6", "0", "4", "1", "6", "2", "1", "5", "9", "6", "8", "0", "4", "6",
      "1", "9", "1", "4", "4", "6", "7", "2", "9", "1", "8", "4", "0", "3", "0", "0",
      "5", "3", "0", "0", "5", "7", "5", "3", "0", "8", "4", "9", "0", "4", "8", "7",
      "6", "5", "3", "9", "1", "7", "1", "1", "3", "8", "6", "5", "9", "1", "6", "4",
      "6", "2", "3", "9", "5", "2", "4", "9", "1", "2", "6", "2", "3", "6", "5", "3",
      "8", "8", "1", "8", "7", "9", "6", "3", "6", "2", "3", "9", "3", "7", "3", "2",
      "8", "0", "4", "2", "3", "8", "9", "1", "0", "1", "8", "6", "7", "2", "3", "4",
      "8", "4", "9", "7", "6", "6", "8", "2", "3", "5", "0", "8", "9", "8", "6", "3",
      "3", "8", "8", "5", "8", "7", "9", "2", "5", "6", "2", "8", "3", "0", "2", "7",
      "5", "5", "9", "9", "5", "6", "5", "7", "5", "2", "4", "4", "5", "5", "5", "0",
      "7", "2", "5", "5", "1", "8", "9", "3", "1", "3", "6", "9", "0", "8", "3", "6",
      "2", "5", "4", "7", "7", "9", "1", "8", "6", "9", "4", "8", "6", "6", "7", "9",
      "9", "4", "9", "6", "8", "3", "2", "4", "0", "4", "9", "7", "0", "5", "8", "2",
      "1", "0", "2", "8", "5", "1", "3", "1", "8", "5", "4", "5", "1", "3", "9", "6",
      "2", "1", "3", "8", "3", "7", "7", "2", "2", "8", "2", "6", "1", "4", "5", "4",
      "3", "7", "6", "9", "3", "4", "1", "2", "5", "3", "2", "0", "9", "8", "5", "9",
      "1", "3", "2", "7", "6", "6", "7", "2", "3", "6", "3", "2", "8", "1", "2", "5" >>

\* float(text) for sign neg, integer digits ints, fraction digits fracs and
\* exponent (sign eneg, digits exps).  Beyond the range of a double the value
\* is an infinity or a zero.
FloatValue(neg, ints, fracs, eneg, exps) ==
    LET sign == IF neg THEN <<"-">> ELSE <<>>
        all == NoLeadingZeros(ints \o fracs)
        d == NoTrailingZeros(all)
        ed == NoLeadingZeros(exps)
        zero == sign \o <<"0", ".", "0">>
        inf == sign \o <<"Infinity">>
    IN  IF d = <<>> THEN zero
        ELSE IF Len(ed) > 8 THEN (IF eneg THEN zero ELSE inf)
        ELSE LET e == (IF eneg THEN 0 - StrToInt(ed) ELSE StrToInt(ed))
                          - Len(fracs) + (Len(all) - Len(d))
                 m == Len(d) + e
             IN  IF m > 309 THEN inf
                 ELSE IF m = 309 /\ ~FractionLess(d, OverflowDigits) THEN inf
                 ELSE IF m < -323 THEN zero
                 ELSE IF m = -323 /\ ~FractionLess(UnderflowDigits, d) THEN zero
                 ELSE sign \o d \o <<"e">>
                          \o (IF e < 0 THEN <<"-">> \o IntToStr(0 - e)
                              ELSE IntToStr(e))

\* The number at the start of p:
\*   (-?(?:0|[1-9][0-9]*))(\.[0-9]+)?([eE][-+]?[0-9]+)?
ParseNumber(p) ==
    LET neg == p /= <<>> /\ Head(p) = "-"
        q == IF neg THEN Tail(p) ELSE p
        ni == IF q /= <<>> /\ Head(q) = "0" THEN 1 ELSE DigitRun(q)
        ints == Take(q, ni)
        f == Drop(q, ni)
        nf == IF Len(f) >= 2 /\ f[1] = "." THEN DigitRun(Tail(f)) ELSE 0
        fracs == IF nf > 0 THEN SubSeq(f, 2, 1 + nf) ELSE <<>>
        x == IF nf > 0 THEN Drop(f, 1 + nf) ELSE f
        signed == Len(x) >= 2 /\ x[1] \in {"e", "E"} /\ x[2] \in {"-", "+"}
        xd == IF x /= <<>> /\ x[1] \in {"e", "E"}
              THEN (IF signed THEN Drop(x, 2) ELSE Drop(x, 1))
              ELSE <<>>
        ne == DigitRun(xd)
        exps == Take(xd, ne)
        rest == IF ne > 0 THEN Drop(xd, ne) ELSE x
    IN  IF ni = 0 THEN ParseFail
        ELSE IF nf = 0 /\ ne = 0
             THEN IF ni > MaxStrDigits THEN ParseRaise("ValueError")
                  ELSE ParseOk(JNum(IF neg /\ ints /= <<"0">> THEN <<"-">> \o ints
                                    ELSE ints), rest)
        ELSE ParseOk(JFloat(FloatValue(neg, ints, fracs,
                                       signed /\ x[2] = "-", exps)), rest)

RECURSIVE ParseValue(_, _), ParseElements(_, _, _), ParseMembers(_, _, _)

\* The value at the start of p0, with room for that many nested lists and
\* dicts.  A run of more opening brackets than there is room for ends in the
\* RecursionError of the bracket there is no room for.
ParseValue(p0, room) ==
    LET p == SkipWs(p0)
        Constant(v, n) ==
            IF room < ConstantFrames THEN ParseRaise("RecursionError")
            ELSE ParseOk(JFloat(v), Drop(p, n))
    IN
    IF p = <<>> THEN ParseFail
    ELSE LET h == Head(p)
             r == Tail(p)
         IN  CASE h = QUOTE -> ParseString(r, room)
               [] h = "{" ->
                    LET q == SkipWs(r) IN
                    IF room = 0 THEN ParseRaise("RecursionError")
                    ELSE IF q /= <<>> /\ Head(q) = "}"
                    THEN ParseOk(JObj(<<>>), Tail(q))
                    ELSE ParseMembers(r, <<>>, room - 1)
               [] h = "[" ->
                    LET q == SkipWs(r) IN
                    IF LeadRun(p, {"["}) > room THEN ParseRaise("RecursionError")
                    ELSE IF q /= <<>> /\ Head(q) = "]"
                    THEN ParseOk(JArr(<<>>), Tail(q))
                    ELSE ParseElements(r, <<>>, room - 1)
               [] StartsWith(p, Letters("null")) -> ParseOk(JNull, Drop(p, 4))
               [] StartsWith(p, Letters("true")) -> ParseOk(JBool("true"), Drop(p, 4))
               [] StartsWith(p, Letters("false")) -> ParseOk(JBool("false"), Drop(p, 5))
               [] h \in Digits -> ParseNumber(p)
               [] StartsWith(p, Letters("NaN")) -> Constant(<<"NaN">>, 3)
               [] StartsWith(p, Letters("Infinity")) -> Constant(<<"Infinity">>, 8)
               [] h = "-" ->
                    IF StartsWith(r, Letters("Infinity"))
                    THEN Constant(<<"-", "Infinity">>, 9)
                    ELSE ParseNumber(p)
               [] OTHER -> ParseFail

ParseElements(p, acc, room) ==
    LET v == ParseValue(p, room) IN
    IF ~v.ok THEN v
    ELSE LET q == SkipWs(v.rest) IN
         IF q = <<>> THEN ScanFail(room)
         ELSE IF Head(q) = ","
              THEN ParseElements(Tail(q), Append(acc, v.val), room)
         ELSE IF Head(q) = "]" THEN ParseOk(JArr(Append(acc, v.val)), Tail(q))
         ELSE ScanFail(room)

ParseMembers(p, acc, room) ==
    LET q == SkipWs(p) IN
    IF q = <<>> \/ Head(q) /= QUOTE THEN ScanFail(room)
    ELSE LET k == ParseString(Tail(q), room) IN
         IF ~k.ok THEN k
         ELSE LET c == SkipWs(k.rest) IN
              IF c = <<>> \/ Head(c) /= ":" THEN ScanFail(room)
              ELSE LET v == ParseValue(Tail(c), room) IN
                   IF ~v.ok THEN v
                   ELSE LET e == SkipWs(v.rest)
                            m == Append(acc, JPair(k.val.s, v.val))
                        IN  IF e = <<>> THEN ScanFail(room)
                            ELSE IF Head(e) = "," THEN ParseMembers(Tail(e), m, room)
                            ELSE IF Head(e) = "}" THEN ParseOk(JObj(m), Tail(e))
                            ELSE ScanFail(room)

\* json.loads(p) with room for that many nested lists and dicts: a value
\* followed by nothing but whitespace.
json_loads(p, room) ==
    LET Whole(v) ==
            IF ~v.ok THEN v
            ELSE IF SkipWs(v.rest) = <<>> THEN ParseOk(v.val, <<>>)
            ELSE ParseFail
    IN  Whole(ParseValue(p, room))

(***************************************************************************)
(* Python operations on the parsed values.  A result is [exc, val] with    *)
(* exc = "" when no exception is raised.                                   *)
(***************************************************************************)
Val(v) == [exc |-> "", val |-> v]
Raise(e) == [exc |-> e, val |-> JNull]

\* Index of the last member of dict d with key k (json.loads keeps the last
\* of duplicate keys), 0 when there is none.
RECURSIVE LastKey(_, _, _)
LastKey(d, k, i) ==
    IF i = 0 THEN 0
    ELSE IF d.kids[i].s = k THEN i
    ELSE LastKey(d, k, i - 1)

HasKey(d, k) == LastKey(d, Spell(k), Len(d.kids)) /= 0
Member(d, k) == d.kids[LastKey(d, Spell(k), Len(d.kids))].kids[1]

\* x.get(k, default)
PyGet(x, k, default) ==
    IF x.t /= "obj" THEN Raise("AttributeError")
    ELSE IF HasKey(x, k) THEN Val(Member(x, k))
    ELSE Val(default)

\* x[k] for a string key k
PyItem(x, k) ==
    IF x.t /= "obj" THEN Raise("TypeError")
    ELSE IF HasKey(x, k) THEN Val(Member(x, k))
    ELSE Raise("KeyError")

\* x[0]
PyFirst(x) ==
    CASE x.t = "arr" -> IF x.kids = <<>> THEN Raise("IndexError") ELSE Val(x.kids[1])
      [] x.t = "str" -> IF x.s = <<>> THEN Raise("IndexError") ELSE Val(JStr(<<x.s[1]>>))
      [] x.t = "obj" -> Raise("KeyError")
      [] OTHER -> Raise("TypeError")

\* bool(x)
Truthy(x) ==
    CASE x.t = "null" -> FALSE
      [] x.t = "bool" -> x.s = <<"true">>
      [] x.t = "num" -> x.s /= <<"0">>
      [] x.t = "float" -> x.s \notin {<<"0", ".", "0">>, <<"-", "0", ".", "0">>}
      [] x.t = "str" -> x.s /= <<>>
      [] OTHER -> x.kids /= <<>>

(***************************************************************************)
(* Exceptions: [type, msg]; type = "" is "no exception".                   *)
(***************************************************************************)
NoErr == [type |-> "", msg |-> <<>>]
Err(ty, m) == [type |-> ty, msg |-> m]

\* "OpenAI API密钥未配置", the message of the ValueError of __init__
KeyMissingText == <<"OpenAI API key not configured">>

\* "OpenAI API错误: ", the fixed head of the message of the status error
ApiErrorHead == "OpenAI API error: "

\* f"OpenAI API错误: {response.status} - {error_text}"
StatusErrorMsg(status, error_text) ==
    <<ApiErrorHead>> \o IntToStr(status) \o <<SP, "-", SP>> \o error_text

(***************************************************************************)
(* The body of the streaming loop for one received line (lines 99-110).    *)
(* Outcome: [act, val, exc] with act one of                                *)
(*   "break" (sentinel), "yield" (val is the fragment), "skip", "raise".   *)
(***************************************************************************)
Outcome(a, v, e) == [act |-> a, val |-> v, exc |-> e]

\* data.get("choices", [{}])[0].get("delta", {}).get("content", "")
DeltaContent(data) ==
    LET c == PyGet(data, <<"choices">>, JArr(<<JObj(<<>>)>>)) IN
    IF c.exc /= "" THEN c
    ELSE LET f == PyFirst(c.val) IN
         IF f.exc /= "" THEN f
         ELSE LET d == PyGet(f.val, <<"delta">>, JObj(<<>>)) IN
              IF d.exc /= "" THEN d
              ELSE PyGet(d.val, <<"content">>, JStr(<<>>))

\* (mutant) the sentinel is not recognised
IsSentinelNever(line) == FALSE

\* line == "data: [DONE]"
IsSentinel(line) == line = Spell(DoneLine)

\* The try block of lines 104-110 on the text after the prefix: of the
\* exceptions of json.loads only json.JSONDecodeError is caught.
DecodeData(json_str) ==
    LET Yield(content) ==
            IF content.exc /= "" THEN Outcome("raise", JNull, content.exc)
            ELSE IF Truthy(content.val) THEN Outcome("yield", content.val, "")
            ELSE Outcome("skip", JNull, "")
        Try(data) ==
            IF data.ok THEN Yield(DeltaContent(data.val))
            ELSE IF data.exc = "JSONDecodeError" THEN Outcome("skip", JNull, "")
            ELSE Outcome("raise", JNull, data.exc)
    IN  Try(json_loads(json_str, RecursionLimit - StreamFrames))

ProcessLine(raw) ==
    LET decoded == Utf8Decode(raw) IN
    IF decoded.exc /= "" THEN Outcome("raise", JNull, decoded.exc)
    ELSE LET line == Strip(decoded.text) IN
         IF IsSentinel(line) THEN Outcome("break", JNull, "")
         ELSE IF StartsWith(line, DataPrefix)
              THEN DecodeData(Drop(line, Len(DataPrefix)))
         ELSE Outcome("skip", JNull, "")

(***************************************************************************)
(* The tail of generate (lines 61-62) on the full body of a 200 response.  *)
(***************************************************************************)
\* result["choices"][0]["message"]["content"]
MessageContent(result) ==
    LET c == PyItem(result, <<"choices">>) IN
    IF c.exc /= "" THEN c
    ELSE LET f == PyFirst(c.val) IN
         IF f.exc /= "" THEN f
         ELSE LET m == PyItem(f.val, <<"message">>) IN
              IF m.exc /= "" THEN m
              ELSE PyItem(m.val, <<"content">>)

\* The Content-Type header of a response: [media, charset], each "" when the
\* header does not give it.
ContentType(m, cs) == [media |-> m, charset |-> cs]
JsonType == ContentType("application/json", "")

\* The check of response.json() on the header: the media type is JSON.
IsJsonContentType(ctype) == ctype.media = "application/json"

\* response.get_encoding() for a response that names its charset or is
\* JSON: the charset of the header; without one, UTF-8.
EncodingOf(ctype) == IF ctype.charset /= "" THEN ctype.charset ELSE "utf-8"

\* response.get_encoding(): for a response of another type that names no
\* charset, what the build falls back on: UTF-8, or an encoding detected from
\* the body, here one that decodes every byte.
Encodings(ctype) ==
    IF ctype.charset /= "" \/ IsJsonContentType(ctype) THEN {EncodingOf(ctype)}
    ELSE {"utf-8", "iso-8859-1"}

\* await response.json(): ContentTypeError for a response whose type is not
\* JSON, None for a body that is empty once stripped, json.loads of the
\* decoded stripped body otherwise.
ResponseJson(body, ctype) ==
    LET stripped == BytesStrip(body)
        decoded == Decode(stripped, EncodingOf(ctype))
    IN  IF ~IsJsonContentType(ctype) THEN Raise("ContentTypeError")
        ELSE IF stripped = <<>> THEN Val(JNull)
        ELSE IF decoded.exc /= "" THEN Raise(decoded.exc)
        ELSE LET Loaded(r) == IF r.ok THEN Val(r.val) ELSE Raise(r.exc)
             IN  Loaded(json_loads(decoded.text, RecursionLimit - JsonFrames))

ParseEnvelope(body, ctype) ==
    LET Content(result) ==
            IF result.exc /= "" THEN result ELSE MessageContent(result.val)
    IN  Content(ResponseJson(body, ctype))

(***************************************************************************)
(* Inputs: the configuration handed to the constructor, and for each call  *)
(* the prompt and what the endpoint answers (the mocked transport).        *)
(***************************************************************************)
MaxLines == 2
MaxChunk == 2
NumCalls == 2

Calls == 1..NumCalls

\* Python's None, where a configured string may be missing.
PyNone == "<None>"

\* not x, for x a str or None
Falsy(x) == x \in {PyNone, ""}

KeyInputs == {PyNone, "", "sk-1"}
ModelInputs == {PyNone, "", "gpt-4o"}
Prompts == {<<"h", "i">>, <<"a">>}

OkStatus == 200
ErrorStatuses == {401, 429, 500}
OtherStatuses == {201}

\* Text of JSON pieces.
Q(w) == <<QUOTE>> \o w \o <<QUOTE>>
Field(k, v) == Q(<<k>>) \o <<":">> \o v
Braces(x) == <<"{">> \o x \o <<"}">>
Brackets(x) == <<"[">> \o x \o <<"]">>

\* {"choices":[{"delta":{"content":<c>}}]}
DeltaFrame(c) ==
    Braces(Field("choices", Brackets(Braces(Field("delta", Braces(Field("content", c)))))))

\* {"choices":[{"message":{"content":<c>}}]}
Envelope(c) ==
    Braces(Field("choices", Brackets(Braces(Field("message", Braces(Field("content", c)))))))

DataLine(payload) == DataPrefix \o payload

\* Received lines (without the newline), by what the decoder meets in them.
Contents == {"a", "b"}
GoodLine(x) == DataLine(DeltaFrame(Q(<<x>>)))
GoodLines == {GoodLine(x) : x \in Contents}

\* Valid JSON without the nested fields: no choices, an empty choices list,
\* a first choice without delta, a delta without content, a null delta,
\* a null content, a top-level value that is not an object.
MissingFieldLines ==
    { DataLine(Braces(<<>>)),
      DataLine(Braces(Field("choices", Brackets(<<>>)))),
      DataLine(Braces(Field("choices", Brackets(Braces(<<>>))))),
      DataLine(Braces(Field("choices", Brackets(Braces(Field("delta", Braces(<<>>))))))),
      DataLine(Braces(Field("choices", Brackets(Braces(Field("delta", <<"null">>)))))),
      DataLine(DeltaFrame(<<"null">>)),
      DataLine(<<"5">>) }

\* Well-formed lines with a content, which the code does not get to yield: a
\* delta frame with one more member, an integer of more digits than int()
\* converts, and a content that makes the line longer than the reader hands
\* out.
BigIntLine ==
    DataLine(Braces(Field("choices", Brackets(Braces(Field("delta",
                        Braces(Field("content", Q(<<"a">>)))))))
                    \o <<",">> \o Field("a", <<DigitsRun>>)))
LongLine == DataLine(DeltaFrame(Q(<<LongRun>>)))

\* Not JSON: a truncated object, a bare word.
InvalidJsonLines == { DataLine(<<"{">> \o Q(<<"choices">>)), DataLine(<<"a">>) }

\* Not JSON either: digits past the limit of int() before a letter, lists
\* opened deeper than the parser nests and never closed, a byte that is not
\* UTF-8.
RaisingJsonLines ==
    { DataLine(<<DigitsRun, "x">>), DataLine(<<BracketsRun>>), DataLine(<<BadByte>>) }

\* An empty line, a comment line, a line of another field with a delta frame
\* from its seventh character on, a data line after a space, an empty
\* content, a number as content before a carriage return.
OtherLines ==
    { <<>>,
      <<":", SP, "a">>,
      <<"e", "v", "e", "n", "t", ":">> \o DeltaFrame(Q(<<"b">>)),
      <<SP>> \o DataLine(DeltaFrame(Q(<<"b">>))),
      DataLine(DeltaFrame(Q(<<>>))),
      DataLine(DeltaFrame(<<"5">>)) \o <<CR>> }

\* A data line between a no-break space and a form feed, a content with
\* escapes ("\u0062\n"), the contents true, -5.5e0 and 0.0, a tab inside a
\* string, a line with a byte that is not UTF-8.
WiderLines ==
    { <<Chr(160)>> \o GoodLine("b") \o <<FF>>,
      DataLine(DeltaFrame(Q(<<BACKSLASH, "u", "0", "0", "6", "2", BACKSLASH, "n">>))),
      DataLine(DeltaFrame(<<"true">>)),
      DataLine(DeltaFrame(<<"-", "5", ".", "5", "e", "0">>)),
      DataLine(DeltaFrame(<<"0", ".", "0">>)),
      DataLine(DeltaFrame(<<"2", ".", "4", "e", "-", "3", "2", "4">>)),
      DataLine(Braces(<<QUOTE, BACKSLASH, "u", "0", "0", "6", "3", "h", "o", "i",
                        "c", "e", "s", QUOTE, ":">> \o Brackets(<<>>))),
      DataLine(DeltaFrame(Q(<<"b", TAB>>))),
      DataLine(<<BadByte>>) }

\* Lines that do not start with the prefix and are not text, or are longer
\* than the reader hands out: a comment with a byte that is not UTF-8, such
\* a byte alone, a comment of 131072 characters.
UnreadableLines == { <<":", BadByte>>, <<BadByte>>, <<":", LongRun>> }

\* One line of each sort that ends the loop, fails, is skipped or is yielded
\* in a way of its own, for the bodies of every mix of them.
StreamLines ==
    { GoodLine("a"),
      DoneLine,
      DataLine(Braces(Field("choices", Brackets(<<>>)))),
      DataLine(<<"{">> \o Q(<<"choices">>)),
      <<SP>> \o DataLine(DeltaFrame(Q(<<"b">>))) }

RECURSIVE JoinLines(_)
JoinLines(ls) ==
    IF ls = <<>> THEN <<>> ELSE Head(ls) \o <<NL>> \o JoinLines(Tail(ls))

LineSeqs(S, n) == UNION {[1..k -> S] : k \in 0..n}

StreamBodies == {JoinLines(ls) : ls \in LineSeqs(StreamLines, MaxLines)}

\* A line without the nested fields between two good lines.
FieldBodies ==
    {JoinLines(<<GoodLine("a"), m, GoodLine("b")>>) : m \in MissingFieldLines}

\* A line of another sort between two good lines, then the sentinel.
OtherBodies ==
    {JoinLines(<<GoodLine("a"), l, GoodLine("b"), DoneLine>>) :
        l \in OtherLines \cup InvalidJsonLines \cup WiderLines \cup RaisingJsonLines
                \cup UnreadableLines \cup {BigIntLine, LongLine}}

\* The sentinel after a space or a tab, between two good lines.
IndentedDoneBodies ==
    {JoinLines(<<GoodLine("a"), <<w>> \o DoneLine, GoodLine("b")>>) : w \in {SP, TAB}}

\* Good lines and lines that are not JSON, in every mix, then the sentinel.
MixBodies ==
    {JoinLines(ls \o <<DoneLine>>) :
        ls \in LineSeqs(GoodLines \cup {DataLine(<<"{">> \o Q(<<"choices">>))}, MaxLines)}

\* A stream that closes in the middle of a line.
CutBodies == {l : l \in GoodLines \cup {DoneLine, <<LongRun>>}}

WellFormedEnvelopes == {Envelope(Q(x)) : x \in {<<"a">>, <<"a", SP, "b">>, <<>>}}

\* An envelope whose content is a no-break space, and one with an integer of
\* more digits than int() converts beside the choices.
SpaceEnvelope == Envelope(Q(<<Chr(160)>>))
BigIntEnvelope ==
    Braces(Field("choices", Brackets(Braces(Field("message",
                Braces(Field("content", Q(<<"a">>)))))))
           \o <<",">> \o Field("a", <<DigitsRun>>))

MissingFieldEnvelopes ==
    { Braces(<<>>),
      Braces(Field("choices", Brackets(<<>>))),
      Braces(Field("choices", Brackets(Braces(<<>>)))),
      Braces(Field("choices", Brackets(Braces(Field("message", Braces(<<>>)))))),
      Braces(Field("choices", <<"null">>)),
      Brackets(<<>>) }

\* Not an envelope: a truncated object, an empty body, a body of
\* whitespace, a number as content, an escape in the content before a
\* vertical tab, a byte that is not UTF-8.
EnvelopeBodies == WellFormedEnvelopes \cup MissingFieldEnvelopes
                    \cup { <<"{">>, <<>>, <<SP, NL>>, Envelope(<<"5">>) \o <<NL>>,
                           Envelope(Q(<<"a", BACKSLASH, "n">>)) \o <<VT>>,
                           <<BadByte>>, <<BracketsRun>>, SpaceEnvelope, BigIntEnvelope }

ErrorBodies ==
    { <<>>,
      <<BadByte>>,
      <<"4", "0", "4", SP, "-", SP, "a">>,
      Braces(Field("a", Q(<<"b">>))) \o <<NL>> \o <<"1", SP, "-", SP, "2">>,
      JoinLines(<<DataLine(DeltaFrame(Q(<<"a">>))), DoneLine>>) }

\* callback: whether the caller passes a callback (callback=None by default).
\* ctype: the Content-Type of the response, JSON without a charset unless
\* said otherwise.
NoCall ==
    [kind |-> "none", prompt |-> <<>>, fail |-> FALSE, status |-> 0, body |-> <<>>,
     ctype |-> JsonType, callback |-> FALSE]
CallInput(k, p, f, st, b) ==
    [kind |-> k, prompt |-> p, fail |-> f, status |-> st, body |-> b,
     ctype |-> JsonType, callback |-> FALSE]

\* The same call, made with a callback.
WithCallback(i) == [i EXCEPT !.callback = TRUE]

\* The same call, answered with another Content-Type.
WithContentType(i, t) == [i EXCEPT !.ctype = t]

\* Headers other than JSON without a charset: JSON with one, text with and
\* without one, an event stream, no header.
OtherContentTypes ==
    { ContentType("application/json", "utf-8"),
      ContentType("application/json", "iso-8859-1"),
      ContentType("text/plain", ""),
      ContentType("text/plain", "iso-8859-1"),
      ContentType("text/event-stream", ""),
      ContentType("", "") }

DefaultPrompt == <<"h", "i">>
DefaultBody(k) ==
    IF k = "stream"
    THEN JoinLines(<<DataLine(DeltaFrame(Q(<<"a">>))), DoneLine>>)
    ELSE Envelope(Q(<<"a">>))

Kinds == {"generate", "stream"}

StreamInputs ==
    {CallInput("stream", DefaultPrompt, FALSE, OkStatus, b) :
        b \in StreamBodies \cup FieldBodies \cup OtherBodies \cup IndentedDoneBodies
                \cup MixBodies \cup CutBodies}

GenerateInputs ==
    {CallInput("generate", p, FALSE, OkStatus, b) : p \in Prompts, b \in EnvelopeBodies}

StatusInputs ==
    {CallInput(k, DefaultPrompt, FALSE, st, b) :
        k \in Kinds, st \in ErrorStatuses \cup OtherStatuses, b \in ErrorBodies}

\* Answers with another Content-Type: envelopes and bodies that are none to
\* generate, a stream, and error bodies that are not ASCII.
ContentTypeInputs ==
    {WithContentType(CallInput("generate", DefaultPrompt, FALSE, OkStatus, b), t) :
        b \in {Envelope(Q(<<"a">>)), SpaceEnvelope, <<>>, <<BadByte>>},
        t \in OtherContentTypes}
    \cup {WithContentType(CallInput("stream", DefaultPrompt, FALSE, OkStatus,
                                    DefaultBody("stream")), t) :
            t \in OtherContentTypes}
    \cup {WithContentType(CallInput(k, DefaultPrompt, FALSE, 401, b), t) :
            k \in Kinds, b \in {<<BadByte>>, <<"a", Chr(160)>>},
            t \in OtherContentTypes}

FailInputs == {CallInput(k, DefaultPrompt, TRUE, 0, <<>>) : k \in Kinds}

CallbackInputs ==
    {WithCallback(CallInput(k, DefaultPrompt, FALSE, OkStatus, DefaultBody(k))) : k \in Kinds}

DefaultConfig == [key |-> "sk-1", model |-> "gpt-4o"]
Configs == [key : KeyInputs, model : ModelInputs]

\* One run: a configuration and what the call is and is answered.
Scenarios ==
    {[cfg |-> DefaultConfig, call |-> i] :
        i \in StreamInputs \cup GenerateInputs \cup StatusInputs \cup FailInputs
                \cup CallbackInputs \cup ContentTypeInputs}
    \cup {[cfg |-> g, call |-> CallInput(k, DefaultPrompt, FALSE, OkStatus, DefaultBody(k))] :
            g \in Configs, k \in Kinds}

(***************************************************************************)
(* ui/statistics_dialog.py: what data_manager answers.  An outline is None, *)
(* an empty dict, or a dict with or without "volumes"; a volume is a dict   *)
(* with or without "chapters"; a chapter stands here for what               *)
(* get_chapter(i, j) answers for it: None or a text.  Titles are only       *)
(* shown, no number is computed from them.                                  *)
(***************************************************************************)
MaxVolumes == 2
\* chapters in the whole outline
MaxChapters == 3

ChapterNone == [some |-> FALSE, text |-> <<>>]
ChapterText(t) == [some |-> TRUE, text |-> t]
ChapterContents ==
    {ChapterNone, ChapterText(<<>>), ChapterText(<<"x">>), ChapterText(<<"x", "y">>)}

VolumeWithoutChapters == [has_chapters |-> FALSE, chapters |-> <<>>]
VolumesOf(n) ==
    {[has_chapters |-> TRUE, chapters |-> cs] : cs \in [1..n -> ChapterContents]}

\* The lists of v volumes with at most budget chapters in all.
RECURSIVE VolumeLists(_, _)
VolumeLists(v, budget) ==
    IF v = 0 THEN {<<>>}
    ELSE UNION {{<<vol>> \o rest : rest \in VolumeLists(v - 1, budget - Len(vol.chapters))} :
                    vol \in {VolumeWithoutChapters} \cup UNION {VolumesOf(n) : n \in 0..budget}}

OutlineNone == [kind |-> "none", has_volumes |-> FALSE, volumes |-> <<>>]
OutlineEmpty == [kind |-> "empty", has_volumes |-> FALSE, volumes |-> <<>>]
OutlineDict(has, vs) == [kind |-> "dict", has_volumes |-> has, volumes |-> vs]

Outlines ==
    {OutlineNone, OutlineEmpty, OutlineDict(FALSE, <<>>)}
    \cup {OutlineDict(TRUE, vs) : vs \in UNION {VolumeLists(v, MaxChapters) : v \in 0..MaxVolumes}}

\* The widgets after _init_ui: labels without text, tables without rows, the
\* progress bar at 0.
NoLabels ==
    [volume_count |-> <<>>, chapter_count |-> <<>>, word_count |-> <<>>,
     avg_chapter_length |-> <<>>, completed_chapters |-> <<>>, completion_rate |-> <<>>]

\* The figure after _init_ui: nothing drawn.
NoCharts ==
    [drawn |-> FALSE, bars |-> <<>>, ticks |-> <<>>, hist |-> <<>>, hist_drawn |-> FALSE]

\* pc: "closed"   no dialog
\*     "opened"   constructed, _calculate_statistics about to run (line 43)
\*     "volumes"  at the head of the loop of line 157
\*     "chapters" at the head of the loop of line 168
\*     "returned" | "done" | "raised"   the call is over
\* i, j are the 0-based indices of the loops.
ClosedDialog ==
    [pc |-> "closed", outline |-> OutlineNone, i |-> 0, j |-> 0,
     total_chapters |-> 0, completed_chapters |-> 0, total_words |-> 0,
     chapter_count |-> 0, volume_words |-> 0, volume_completed_chapters |-> 0,
     volume_stats |-> <<>>, chapter_stats |-> <<>>,
     volume_rows |-> 0, volume_table |-> <<>>, chapter_rows |-> 0, chapter_table |-> <<>>,
     labels |-> NoLabels, progress |-> 0, charts |-> NoCharts, err |-> ""]

OpenedDialog(o) == [ClosedDialog EXCEPT !.pc = "opened", !.outline = o]

(***************************************************************************)
(* State                                                                   *)
(***************************************************************************)
VARIABLES
    cfg,      \* what config_manager answers for 'gpt': [key, model]
    inp,      \* per call: the prompt and the endpoint's answer
    client,   \* the GPTModel object: [state, api_key, model_name, err]
    call,     \* per call: the frame of generate / generate_stream
    dlg       \* the StatisticsDialog: the frame of _calculate_statistics and the widgets

vars == <<cfg, inp, client, call, dlg>>

NoValue == [t |-> "none", s |-> <<>>, kids |-> <<>>]
NoRequest == [sent |-> FALSE, auth |-> <<>>, model |-> "", prompt |-> <<>>, stream |-> FALSE]

\* pc: "idle"       not called yet
\*     "posting"    awaiting session.post (lines 51 / 88)
\*     "error_text" awaiting response.text() (lines 58 / 95)
\*     "json"       awaiting response.json() (line 61)
\*     "reading"    awaiting the next line of response.content (line 98)
\*     "suspended"  at the yield of line 108, the fragment is with the consumer
\*     "abandoned"  suspended, and the consumer has dropped the generator
\*     "orphaned"   abandoned, and no event loop is left to close the generator
\*     "returned" | "done" | "raised" | "closed" | "cancelled"   the call is over
\* called: the arguments the callback was invoked with, in order.  No
\* statement of generate or generate_stream mentions the parameter callback,
\* so no action below adds to it.
IdleCall ==
    [pc |-> "idle", session |-> "none", response |-> "none", req |-> NoRequest,
     status |-> 0, wire |-> <<>>, buf |-> <<>>, lines |-> 0,
     yielded |-> <<>>, result |-> NoValue, err |-> NoErr, called |-> <<>>]

Over == {"returned", "done", "raised", "closed", "cancelled"}

InitWith(s) ==
    /\ cfg = s.cfg
    /\ inp = [c \in Calls |-> IF c = 1 THEN s.call ELSE NoCall]
    /\ client = [state |-> "new", api_key |-> PyNone, model_name |-> PyNone, err |-> NoErr]
    /\ call = [c \in Calls |-> IdleCall]
    /\ dlg = ClosedDialog

Init == \E s \in Scenarios : InitWith(s)

(***************************************************************************)
(* GPTModel.__init__                                                       *)
(***************************************************************************)
DefaultModelName == "gpt-4-turbo"

\* (mutant) only a missing key is refused, an empty one is accepted
KeyRejectedWhenNone(api_key) == api_key = PyNone

\* if not self.api_key
KeyRejected(api_key) == Falsy(api_key)

\* (mutant) only a missing model name is replaced, an empty one is kept
ModelNameOrDefaultWhenNone(model_name) ==
    IF model_name = PyNone THEN DefaultModelName ELSE model_name

\* if not self.model_name: self.model_name = "gpt-4-turbo"
ModelNameOrDefault(model_name) ==
    IF Falsy(model_name) THEN DefaultModelName ELSE model_name

Construct ==
    /\ client.state = "new"
    /\ LET api_key == cfg.key
           model_name == cfg.model
       IN  client' =
             IF KeyRejected(api_key)
             THEN [state |-> "failed", api_key |-> api_key, model_name |-> model_name,
                   err |-> Err("ValueError", KeyMissingText)]
             ELSE [state |-> "ready", api_key |-> api_key,
                   model_name |-> ModelNameOrDefault(model_name),
                   err |-> NoErr]
    /\ UNCHANGED <<cfg, inp, call, dlg>>

(***************************************************************************)
(* The two "async with" scopes (lines 50-56, 87-93): leaving them, on any  *)
(* path, closes the response and the session.                              *)
(***************************************************************************)
\* (mutant) the session and response are closed by a statement at the end of
\* the function body, reached only when the body runs to its end
ExitScopesAtEndOnly(r) ==
    IF r.pc \in {"done", "returned"}
    THEN [r EXCEPT !.session = "closed", !.response = "closed"]
    ELSE r

ExitScopes(r) ==
    [r EXCEPT !.session = IF @ = "open" THEN "closed" ELSE @,
              !.response = IF @ = "open" THEN "closed" ELSE @]

\* (mutant) the response is kept in one place for all calls (an attribute of
\* the client), so what one call receives and consumes is every call's
SetSharedResponse(c, r) ==
    call' = [d \in Calls |->
                IF d = c THEN r
                ELSE IF call[d].response = "open" /\ r.response = "open"
                     THEN [call[d] EXCEPT !.buf = r.buf, !.wire = r.wire]
                     ELSE call[d]]

\* The frame of call c becomes r; every other call's frame is left alone:
\* session, response and the locals are created inside each call.
Set(c, r) == call' = [call EXCEPT ![c] = r]

\* headers and data of lines 39-48 / 76-85
Request(prompt, streaming) ==
    [sent |-> TRUE, auth |-> <<"Bearer ", client.api_key>>, model |-> client.model_name,
     prompt |-> prompt, stream |-> streaming]

\* generate(prompt) is awaited, or the first element of generate_stream(prompt)
\* is asked for: build the request, open the session, post.
Start(c) ==
    /\ client.state = "ready"
    /\ inp[c].kind /= "none"
    /\ call[c].pc = "idle"
    /\ Set(c, [call[c] EXCEPT !.pc = "posting",
                              !.session = "open",
                              !.req = Request(inp[c].prompt, inp[c].kind = "stream")])
    /\ UNCHANGED <<cfg, inp, client, dlg>>

\* The connection cannot be made: session.post raises, the session scope exits.
PostFail(c) ==
    /\ call[c].pc = "posting"
    /\ inp[c].fail
    /\ Set(c, ExitScopes([call[c] EXCEPT !.pc = "raised",
                                         !.err = Err("ClientError", <<>>)]))
    /\ UNCHANGED <<cfg, inp, client, dlg>>

\* (mutant) the test of response.ok: every status below 400 is accepted
StatusRejectedFrom400(status) == status >= 400

\* if response.status != 200 (lines 57 / 94)
StatusRejected(status) == status /= 200

\* The response head arrives; the body is still on the wire.
PostDone(c) ==
    /\ call[c].pc = "posting"
    /\ ~inp[c].fail
    /\ Set(c, [call[c] EXCEPT !.response = "open",
                              !.status = inp[c].status,
                              !.wire = inp[c].body,
                              !.pc = IF StatusRejected(inp[c].status) THEN "error_text"
                                     ELSE IF inp[c].kind = "generate" THEN "json"
                                     ELSE "reading"])
    /\ UNCHANGED <<cfg, inp, client, dlg>>

Min(a, b) == IF a < b THEN a ELSE b

\* A raw chunk of the body arrives and is appended to the response's buffer.
Deliver(c) ==
    /\ call[c].response = "open"
    /\ call[c].wire /= <<>>
    /\ \E n \in 1..Min(MaxChunk, Len(call[c].wire)) :
         Set(c, [call[c] EXCEPT !.buf = @ \o Take(call[c].wire, n),
                                !.wire = Drop(@, n)])
    /\ UNCHANGED <<cfg, inp, client, dlg>>

\* await response.text() / response.json(): the whole body, once it has arrived.
WholeBody(buf, eof) == [ready |-> eof, text |-> buf]

\* error_text = await response.text(); raise Exception(...)
\* response.text() decodes the body with the encoding of the response.
RaiseStatusError(c) ==
    /\ call[c].pc = "error_text"
    /\ \E encoding \in Encodings(inp[c].ctype) :
         LET b == WholeBody(call[c].buf, call[c].wire = <<>>)
             error_text == Decode(b.text, encoding)
         IN  /\ b.ready
             /\ Set(c, ExitScopes([call[c] EXCEPT
                     !.pc = "raised",
                     !.buf = <<>>,
                     !.err = IF error_text.exc /= "" THEN Err(error_text.exc, <<>>)
                             ELSE Err("Exception",
                                      StatusErrorMsg(call[c].status, error_text.text))]))
    /\ UNCHANGED <<cfg, inp, client, dlg>>

\* result = await response.json(); return result["choices"][0]["message"]["content"]
ReturnResult(c) ==
    /\ call[c].pc = "json"
    /\ LET b == WholeBody(call[c].buf, call[c].wire = <<>>)
           Return(r) ==
               IF r.exc /= ""
               THEN [call[c] EXCEPT !.pc = "raised", !.buf = <<>>,
                                    !.err = Err(r.exc, <<>>)]
               ELSE [call[c] EXCEPT !.pc = "returned", !.buf = <<>>,
                                    !.result = r.val]
       IN  /\ b.ready
           /\ Set(c, ExitScopes(Return(ParseEnvelope(b.text, inp[c].ctype))))
    /\ UNCHANGED <<cfg, inp, client, dlg>>

\* The most bytes the reader of response.content hands out as one line:
\* twice its buffer limit of 2^16.
HighWater == 131072

\* (mutant) the body is read to its end before the first line is handed out
ReadLineWhenComplete(buf, eof) ==
    LET e == Find(buf, NL) IN
    IF e /= 0
    THEN [ready |-> eof, exc |-> "", line |-> Take(buf, e), rest |-> Drop(buf, e)]
    ELSE [ready |-> eof, exc |-> "", line |-> buf, rest |-> <<>>]

\* (mutant) the body is iterated by chunks: whatever is buffered is a "line"
ReadAnyFrom(buf, eof) ==
    [ready |-> buf /= <<>> \/ eof, exc |-> "", line |-> buf, rest |-> <<>>]

\* One step of "async for line in response.content": the buffered bytes up to
\* and including the first newline; at end of body, what is left.  Not ready
\* while the buffer holds no newline and more of the body is to come.  Once
\* the bytes read for the line are more than the reader hands out, it raises
\* ValueError ("Chunk too big"), with or without the newline.
ReadLineFrom(buf, eof) ==
    LET e == Find(buf, NL)
        part == IF e /= 0 THEN Take(buf, e) ELSE buf
    IN  IF ByteLen(part) > HighWater
        THEN [ready |-> TRUE, exc |-> "ValueError", line |-> <<>>,
              rest |-> Drop(buf, Len(part))]
        ELSE IF e /= 0
        THEN [ready |-> TRUE, exc |-> "", line |-> part, rest |-> Drop(buf, e)]
        ELSE [ready |-> eof, exc |-> "", line |-> buf, rest |-> <<>>]

\* Lines 98-110 for one line: read it, decode it, and run to the next
\* suspension point (the yield, the next read) or to the end of the call.
NextLine(c) ==
    /\ call[c].pc = "reading"
    /\ LET r == ReadLineFrom(call[c].buf, call[c].wire = <<>>)
           taken == [call[c] EXCEPT !.buf = r.rest, !.lines = @ + 1]
           Body(o) ==
               CASE o.act = "break" -> ExitScopes([taken EXCEPT !.pc = "done"])
                 [] o.act = "yield" ->
                      [taken EXCEPT !.pc = "suspended",
                                    !.yielded = Append(@, o.val)]
                 [] o.act = "raise" ->
                      ExitScopes([taken EXCEPT !.pc = "raised",
                                               !.err = Err(o.exc, <<>>)])
                 [] OTHER -> taken
       IN  /\ r.ready
           /\ Set(c,
                IF r.exc /= ""
                THEN ExitScopes([call[c] EXCEPT !.pc = "raised", !.buf = r.rest,
                                                !.err = Err(r.exc, <<>>)])
                ELSE IF r.line = <<>>
                THEN ExitScopes([call[c] EXCEPT !.pc = "done"])
                ELSE Body(ProcessLine(r.line)))
    /\ UNCHANGED <<cfg, inp, client, dlg>>

\* The consumer asks for the next element.
Resume(c) ==
    /\ call[c].pc = "suspended"
    /\ Set(c, [call[c] EXCEPT !.pc = "reading"])
    /\ UNCHANGED <<cfg, inp, client, dlg>>

\* The consumer stops iterating and drops the generator.
Abandon(c) ==
    /\ call[c].pc = "suspended"
    /\ Set(c, [call[c] EXCEPT !.pc = "abandoned"])
    /\ UNCHANGED <<cfg, inp, client, dlg>>

\* aclose() of the dropped generator (by the consumer, or by the event loop's
\* finalizer): GeneratorExit is raised at the yield and the scopes exit.
Finalize(c) ==
    /\ call[c].pc = "abandoned"
    /\ Set(c, ExitScopes([call[c] EXCEPT !.pc = "closed"]))
    /\ UNCHANGED <<cfg, inp, client, dlg>>

\* The event loop of the dropped generator is closed without
\* shutdown_asyncgens() (or is never run again): no aclose() can run any
\* more, the generator stays suspended at the yield of line 108 inside both
\* scopes.
LoopClosed(c) ==
    /\ call[c].pc = "abandoned"
    /\ Set(c, [call[c] EXCEPT !.pc = "orphaned"])
    /\ UNCHANGED <<cfg, inp, client, dlg>>

\* The awaits of a call: session.post (lines 51 / 88), response.text()
\* (58 / 95), response.json() (61), the next line of response.content (98).
Awaiting == {"posting", "error_text", "json", "reading"}

\* The task running the call is cancelled while the call awaits:
\* CancelledError is raised at the await and leaves the call through both
\* scopes; what the response had buffered or had still to receive is dropped.
Cancel(c) ==
    /\ call[c].pc \in Awaiting
    /\ Set(c, ExitScopes([call[c] EXCEPT !.pc = "cancelled",
                                         !.buf = <<>>,
                                         !.wire = <<>>,
                                         !.err = Err("CancelledError", <<>>)]))
    /\ UNCHANGED <<cfg, inp, client, dlg>>

Next ==
    \/ Construct
    \/ \E c \in Calls : Start(c)
    \/ \E c \in Calls : PostFail(c)
    \/ \E c \in Calls : PostDone(c)
    \/ \E c \in Calls : Deliver(c)
    \/ \E c \in Calls : RaiseStatusError(c)
    \/ \E c \in Calls : ReturnResult(c)
    \/ \E c \in Calls : NextLine(c)
    \/ \E c \in Calls : Resume(c)
    \/ \E c \in Calls : Abandon(c)
    \/ \E c \in Calls : Finalize(c)
    \/ \E c \in Calls : LoopClosed(c)
    \/ \E c \in Calls : Cancel(c)

Spec == Init /\ [][Next]_vars

\* The scheduling of a running event loop: it runs the aclose() of a
\* generator that was dropped (asyncio installs the finalizer hook for every
\* asynchronous generator it iterates), unless the loop is closed first.
\* Nothing obliges the consumer to ask for the next element.
Fairness == \A c \in Calls : WF_vars(Finalize(c))

FairSpec == Spec /\ Fairness

(***************************************************************************)
(* Two calls on one client, interleaved at every await and every yield.    *)
(***************************************************************************)
\* What the first call is answered / what the second call is answered.
FirstCallInputs ==
    { CallInput("stream", DefaultPrompt, FALSE, OkStatus, JoinLines(<<GoodLine("a"), DoneLine>>)),
      CallInput("generate", <<"a">>, FALSE, OkStatus, Envelope(Q(<<"a">>))) }

SecondCallInputs ==
    { CallInput("stream", DefaultPrompt, FALSE, OkStatus, GoodLine("b") \o <<NL>>),
      CallInput("stream", DefaultPrompt, FALSE, OkStatus,
                JoinLines(<<DataLine(Braces(Field("choices", Brackets(<<>>))))>>)),
      CallInput("generate", DefaultPrompt, FALSE, OkStatus, Braces(<<>>)),
      CallInput("stream", DefaultPrompt, FALSE, 500, GoodLine("b") \o <<NL>>),
      CallInput("generate", DefaultPrompt, TRUE, 0, <<>>) }

ConcInit ==
    \E i \in FirstCallInputs, j \in SecondCallInputs :
        /\ cfg = DefaultConfig
        /\ inp = [c \in Calls |-> IF c = 1 THEN i ELSE IF c = 2 THEN j ELSE NoCall]
        /\ client = [state |-> "new", api_key |-> PyNone, model_name |-> PyNone, err |-> NoErr]
        /\ call = [c \in Calls |-> IdleCall]
        /\ dlg = ClosedDialog

ConcSpec == ConcInit /\ [][Next]_vars

(***************************************************************************)
(* StatisticsDialog._calculate_statistics (ui/statistics_dialog.py).        *)
(***************************************************************************)
\* f"{n:,}" for n >= 0
RECURSIVE ThousandsStr(_)
ThousandsStr(n) ==
    IF n < 1000 THEN IntToStr(n)
    ELSE ThousandsStr(n \div 1000)
            \o <<",", DigitChar((n % 1000) \div 100), DigitChar((n \div 10) % 10), DigitChar(n % 10)>>

\* A number as Python holds it: [exc, num, den, err].  An int n is n/1.  A
\* float is written by the fraction num/den it was computed for and the side
\* err on which the double lies: above it (1), below it (-1), or on it (0).
\* The fractions of the statistics are far coarser than the doubles, so that
\* no double lies beyond a hundredth, or half a hundredth, its fraction does
\* not reach.
Number(n) == [exc |-> "", num |-> n, den |-> 1, err |-> 0]

\* a/b brought into [1, 2) by a power of two: <<n, d>> with d <= n < 2d.
RECURSIVE Normal(_, _)
Normal(a, b) ==
    IF a < b THEN Normal(2 * a, b)
    ELSE IF a >= 2 * b THEN Normal(a, 2 * b)
    ELSE <<a, b>>

\* Long division, four bits at a step: k more steps after the bits m (kept
\* to their low eight), r being the remainder so far: [rem, low].
RECURSIVE LongDivide(_, _, _, _)
LongDivide(r, d, m, k) ==
    IF k = 0 THEN [rem |-> r, low |-> m]
    ELSE LongDivide((16 * r) % d, d, (16 * m + (16 * r) \div d) % 256, k - 1)

\* The 53 bits of the double a/b (a, b > 0): the fraction in [1, 2), the
\* remainder under the last bit, the low eight bits, and whether rounding to
\* nearest, ties to even, adds one to them.
Mantissa(a, b) ==
    LET nd == Normal(a, b)
        Rounded(q) ==
            [num |-> nd[1], den |-> nd[2], rem |-> q.rem, low |-> q.low,
             up |-> IF 2 * q.rem > nd[2] \/ (2 * q.rem = nd[2] /\ q.low % 2 = 1)
                    THEN 1 ELSE 0]
    IN  Rounded(LongDivide(nd[1] - nd[2], nd[2], 1, 13))

Sign(n) == IF n > 0 THEN 1 ELSE IF n < 0 THEN -1 ELSE 0

\* a / b for two ints: ZeroDivisionError, or the double nearest to a/b.
Divide(a, b) ==
    IF b = 0 THEN [exc |-> "ZeroDivisionError", num |-> 0, den |-> 1, err |-> 0]
    ELSE IF a = 0 THEN Number(0)
    ELSE LET Sided(m) ==
                 [exc |-> "", num |-> a, den |-> b,
                  err |-> IF m.up = 1 THEN 1 ELSE IF m.rem > 0 THEN -1 ELSE 0]
         IN  Sided(Mantissa(a, b))

\* x * 100 for the double x = a / b: the 53 bits of x times 100 are 59 or 60
\* bits (60 from 1.28 on), rounded to 53 again; the sign of what the two
\* roundings add to 100a/b is the side of the product.
Times100(x) ==
    IF x.exc /= "" \/ x.num = 0 THEN x
    ELSE LET Product(m) ==
                 LET bits == IF 25 * m.num < 32 * m.den
                                  \/ (25 * m.num = 32 * m.den /\ m.up = 0)
                             THEN 64 ELSE 128
                     p == (100 * ((m.low + m.up) % 256)) % 256
                     low == p % bits
                     up == IF 2 * low > bits
                                \/ (2 * low = bits /\ (p \div bits) % 2 = 1)
                           THEN 1 ELSE 0
                 IN  [exc |-> "", num |-> 100 * x.num, den |-> x.den,
                      err |-> Sign(m.den * (100 * m.up - low + up * bits) - 100 * m.rem)]
         IN  Product(Mantissa(x.num, x.den))

\* f"{x:.2f}" of x >= 0: the hundredth nearest to the double; where the
\* fraction lies half way between two, the side of the double decides, and
\* a double that is half way itself goes to the even one.
Fixed2(x) ==
    LET q == (100 * x.num) \div x.den
        r == (100 * x.num) % x.den
        h == IF 2 * r > x.den THEN q + 1
             ELSE IF 2 * r < x.den THEN q
             ELSE IF x.err > 0 THEN q + 1
             ELSE IF x.err < 0 THEN q
             ELSE IF q % 2 = 1 THEN q + 1
             ELSE q
    IN  IntToStr(h \div 100) \o <<".", DigitChar((h \div 10) % 10), DigitChar(h % 10)>>

\* int(x) of x >= 0: a double below the whole number its fraction is
\* truncates to the one before.
PyInt(x) ==
    IF x.num % x.den = 0 /\ x.err < 0 THEN x.num \div x.den - 1
    ELSE x.num \div x.den

\* outline.get("volumes", []) / volume.get("chapters", [])
VolumesOfOutline(outline) == IF outline.has_volumes THEN outline.volumes ELSE <<>>
ChaptersOfVolume(volume) == IF volume.has_chapters THEN volume.chapters ELSE <<>>

\* len(content) if content else 0
WordCount(content) ==
    IF content.some /\ content.text /= <<>> THEN Len(content.text) ELSE 0

\* (mutant) the quotient without the test of total_chapters
AverageChapterLengthUnguarded(total_words, total_chapters) ==
    Divide(total_words, total_chapters)

\* total_words / total_chapters if total_chapters > 0 else 0
AverageChapterLength(total_words, total_chapters) ==
    IF total_chapters > 0 THEN Divide(total_words, total_chapters) ELSE Number(0)

\* (completed_chapters / total_chapters * 100) if total_chapters > 0 else 0
CompletionRate(completed_chapters, total_chapters) ==
    IF total_chapters > 0 THEN Times100(Divide(completed_chapters, total_chapters))
    ELSE Number(0)

\* _draw_charts (lines 239-266): the bars of the first chart, one for each
\* volume (its number, its words), and the values of the histogram of the
\* second, the word counts of the chapters that have words; the histogram is
\* drawn only when there is one.
VolumeBars(volume_stats) ==
    [k \in 1..Len(volume_stats) |->
        <<volume_stats[k].volume_index + 1, volume_stats[k].word_count>>]

RECURSIVE ChapterWords(_)
ChapterWords(chapter_stats) ==
    IF chapter_stats = <<>> THEN <<>>
    ELSE IF Head(chapter_stats).word_count > 0
    THEN <<Head(chapter_stats).word_count>> \o ChapterWords(Tail(chapter_stats))
    ELSE ChapterWords(Tail(chapter_stats))

DrawCharts(d) ==
    [d EXCEPT !.charts = [drawn |-> TRUE,
                          bars |-> VolumeBars(d.volume_stats),
                          ticks |-> [k \in 1..Len(d.volume_stats) |->
                                        d.volume_stats[k].volume_index + 1],
                          hist |-> ChapterWords(d.chapter_stats),
                          hist_drawn |-> ChapterWords(d.chapter_stats) /= <<>>]]

\* Lines 134-154: the outline is fetched; without one nothing is shown.
CalculateStart ==
    /\ dlg.pc = "opened"
    /\ LET outline == dlg.outline
           volumes == VolumesOfOutline(outline)
       IN  dlg' =
             IF outline.kind \in {"none", "empty"}
             THEN [dlg EXCEPT !.pc = "returned"]
             ELSE [dlg EXCEPT !.pc = "volumes",
                              !.labels.volume_count = IntToStr(Len(volumes)),
                              !.total_chapters = 0, !.completed_chapters = 0,
                              !.total_words = 0,
                              !.volume_stats = <<>>, !.chapter_stats = <<>>,
                              !.volume_rows = Len(volumes),
                              !.i = 0]
    /\ UNCHANGED <<cfg, inp, client, call>>

\* Lines 157-165: the next volume.
VolumeBegin ==
    /\ dlg.pc = "volumes"
    /\ dlg.i < Len(VolumesOfOutline(dlg.outline))
    /\ LET chapters == ChaptersOfVolume(VolumesOfOutline(dlg.outline)[dlg.i + 1])
       IN  dlg' = [dlg EXCEPT !.pc = "chapters",
                              !.chapter_count = Len(chapters),
                              !.total_chapters = @ + Len(chapters),
                              !.volume_words = 0,
                              !.volume_completed_chapters = 0,
                              !.j = 0]
    /\ UNCHANGED <<cfg, inp, client, call>>

\* Lines 168-192: the next chapter of the volume.
ChapterStep ==
    /\ dlg.pc = "chapters"
    /\ dlg.j < dlg.chapter_count
    /\ LET content == ChaptersOfVolume(VolumesOfOutline(dlg.outline)[dlg.i + 1])[dlg.j + 1]
           word_count == WordCount(content)
           is_completed == word_count > 0
       IN  dlg' = [dlg EXCEPT
                     !.volume_words = @ + word_count,
                     !.total_words = @ + word_count,
                     !.completed_chapters = IF is_completed THEN @ + 1 ELSE @,
                     !.volume_completed_chapters = IF is_completed THEN @ + 1 ELSE @,
                     !.chapter_stats = Append(@, [volume_index |-> dlg.i,
                                                  chapter_index |-> dlg.j,
                                                  word_count |-> word_count,
                                                  is_completed |-> is_completed]),
                     !.j = @ + 1]
    /\ UNCHANGED <<cfg, inp, client, call>>

\* Lines 195-207: the volume's statistics and its row of the volume table.
VolumeEnd ==
    /\ dlg.pc = "chapters"
    /\ dlg.j = dlg.chapter_count
    /\ dlg' = [dlg EXCEPT
                 !.pc = "volumes",
                 !.volume_stats = Append(@, [volume_index |-> dlg.i,
                                             chapter_count |-> dlg.chapter_count,
                                             word_count |-> dlg.volume_words,
                                             completed_chapters |-> dlg.volume_completed_chapters]),
                 !.volume_table = Append(@, <<IntToStr(dlg.i + 1),
                                              IntToStr(dlg.chapter_count),
                                              ThousandsStr(dlg.volume_words)>>),
                 !.i = @ + 1]
    /\ UNCHANGED <<cfg, inp, client, call>>

\* The row of the chapter table for one entry of chapter_stats (lines 212-219);
\* the two status texts stand for the Chinese ones of line 216.
ChapterRow(stat) ==
    <<IntToStr(stat.volume_index + 1), IntToStr(stat.chapter_index + 1),
      ThousandsStr(stat.word_count),
      IF stat.is_completed THEN "completed" ELSE "not completed">>

\* Lines 210-237: the chapter table, the overview labels, the progress bar,
\* the charts.
Summarize ==
    /\ dlg.pc = "volumes"
    /\ dlg.i = Len(VolumesOfOutline(dlg.outline))
    /\ LET avg_chapter_length == AverageChapterLength(dlg.total_words, dlg.total_chapters)
           completion_rate == CompletionRate(dlg.completed_chapters, dlg.total_chapters)
           counted == [dlg EXCEPT
                         !.chapter_rows = Len(dlg.chapter_stats),
                         !.chapter_table = [k \in 1..Len(dlg.chapter_stats) |->
                                               ChapterRow(dlg.chapter_stats[k])],
                         !.labels.chapter_count = IntToStr(dlg.total_chapters),
                         !.labels.word_count = ThousandsStr(dlg.total_words)]
       IN  dlg' =
             IF avg_chapter_length.exc /= ""
             THEN [counted EXCEPT !.pc = "raised", !.err = avg_chapter_length.exc]
             ELSE IF completion_rate.exc /= ""
             THEN [counted EXCEPT
                     !.pc = "raised", !.err = completion_rate.exc,
                     !.labels.avg_chapter_length = Fixed2(avg_chapter_length),
                     !.labels.completed_chapters =
                         IntToStr(dlg.completed_chapters) \o <<SP, "/", SP>>
                             \o IntToStr(dlg.total_chapters)]
             ELSE DrawCharts([counted EXCEPT
                     !.pc = "done",
                     !.labels.avg_chapter_length = Fixed2(avg_chapter_length),
                     !.labels.completed_chapters =
                         IntToStr(dlg.completed_chapters) \o <<SP, "/", SP>>
                             \o IntToStr(dlg.total_chapters),
                     !.labels.completion_rate = Fixed2(completion_rate) \o <<"%">>,
                     !.progress = PyInt(completion_rate)])
    /\ UNCHANGED <<cfg, inp, client, call>>

StatInit ==
    /\ cfg = DefaultConfig
    /\ inp = [c \in Calls |-> NoCall]
    /\ client = [state |-> "new", api_key |-> PyNone, model_name |-> PyNone, err |-> NoErr]
    /\ call = [c \in Calls |-> IdleCall]
    /\ \E o \in Outlines : dlg = OpenedDialog(o)

StatNext ==
    \/ CalculateStart
    \/ VolumeBegin
    \/ ChapterStep
    \/ VolumeEnd
    \/ Summarize

StatSpec == StatInit /\ [][StatNext]_vars

(***************************************************************************)
(* Reference decoding of a whole body, for the properties below: the body  *)
(* cut at its newlines, the lines decoded in order up to the first that    *)
(* ends the loop.                                                          *)
(***************************************************************************)
RECURSIVE RawLines(_)
RawLines(body) ==
    IF body = <<>> THEN <<>>
    ELSE LET e == Find(body, NL) IN
         IF e = 0 THEN <<body>>
         ELSE <<Take(body, e)>> \o RawLines(Drop(body, e))

\* A raw line without its newline.
Chomp(l) == IF l /= <<>> /\ l[Len(l)] = NL THEN Take(l, Len(l) - 1) ELSE l

Chomped(ls) == [i \in 1..Len(ls) |-> Chomp(ls[i])]

RECURSIVE RunLines(_, _)
RunLines(ls, acc) ==
    IF ls = <<>> THEN [yielded |-> acc, exc |-> ""]
    ELSE IF ByteLen(Head(ls)) > HighWater THEN [yielded |-> acc, exc |-> "ValueError"]
    ELSE LET o == ProcessLine(Head(ls)) IN
         CASE o.act = "break" -> [yielded |-> acc, exc |-> ""]
           [] o.act = "raise" -> [yielded |-> acc, exc |-> o.exc]
           [] o.act = "yield" -> RunLines(Tail(ls), Append(acc, o.val))
           [] OTHER -> RunLines(Tail(ls), acc)

Expected(body) == RunLines(RawLines(body), <<>>)

IsPrefix(a, b) == Len(a) <= Len(b) /\ Take(b, Len(a)) = a

\* The contents of the good lines among ls, in order.
RECURSIVE GoodFragments(_)
GoodFragments(ls) ==
    IF ls = <<>> THEN <<>>
    ELSE LET h == Head(ls) IN
         IF \E x \in Contents : h = GoodLine(x)
         THEN <<JStr(<<CHOOSE x \in Contents : h = GoodLine(x)>>)>> \o GoodFragments(Tail(ls))
         ELSE GoodFragments(Tail(ls))

Range(f) == {f[i] : i \in DOMAIN f}

\* A generate_stream call answered with status 200.
Streaming(c) == inp[c].kind = "stream" /\ inp[c].status = OkStatus /\ ~inp[c].fail

\* The lines of the body of call c, when every line ends with a newline.
LinesOf(c) == Chomped(RawLines(inp[c].body))
Terminated(c) == inp[c].body = JoinLines(LinesOf(c))

\* The generator ran to its end (it was not closed while suspended, and the
\* task running it was not cancelled).
RanOut(c) == call[c].pc \in {"done", "raised"}

\* The call is over, and it was not cancelled by its caller.
Completed(c) == call[c].pc \in Over \ {"cancelled"}

\* The body of the response to call c is text: every byte of it is part of
\* valid UTF-8.
TextBody(c) == IsUtf8(inp[c].body)

(***************************************************************************)
(* Properties                                                              *)
(***************************************************************************)

\* Well-formed data lines with a non-empty content: the good lines, a content
\* written with escapes, a frame with one more member, a long content.
EscapedLine ==
    DataLine(DeltaFrame(Q(<<BACKSLASH, "u", "0", "0", "6", "2", BACKSLASH, "n">>)))
WellFormedLines == GoodLines \cup {EscapedLine, BigIntLine, LongLine}

\* The content a well-formed line carries.
ContentOf(l) ==
    CASE l = EscapedLine -> JStr(<<"b", NL>>)
      [] l = BigIntLine -> JStr(<<"a">>)
      [] l = LongLine -> JStr(Spell(<<LongRun>>))
      [] OTHER -> JStr(<<CHOOSE x \in Contents : l = GoodLine(x)>>)

\* C1: a 200 stream of N well-formed data lines, each with a non-empty
\* content, then the sentinel: the call yields exactly the N contents, in
\* line order, and ends without an error.
C1_GoodStreamYieldsEveryLine ==
    \A c \in Calls :
        (RanOut(c) /\ Streaming(c) /\ Terminated(c)
            /\ LET ls == LinesOf(c) IN
               /\ ls /= <<>>
               /\ ls[Len(ls)] = DoneLine
               /\ \A i \in 1..(Len(ls) - 1) : ls[i] \in WellFormedLines)
        => LET ls == LinesOf(c) IN
           /\ call[c].pc = "done"
           /\ call[c].err = NoErr
           /\ Len(call[c].yielded) = Len(ls) - 1
           /\ \A i \in 1..(Len(ls) - 1) : call[c].yielded[i] = ContentOf(ls[i])

\* The second line has, beside its choices, an integer of 4301 digits:
\* json.loads raises ValueError, which line 109 does not catch, after one
\* fragment and before the third line.
C1_Witness ==
    \E c \in Calls :
        /\ Streaming(c)
        /\ inp[c].body = JoinLines(<<GoodLine("a"), BigIntLine, GoodLine("b"), DoneLine>>)
        /\ call[c].pc = "raised"
        /\ call[c].err.type = "ValueError"
        /\ call[c].lines = 2
        /\ call[c].yielded = <<JStr(<<"a">>)>>

\* C2: however the body of a 200 stream is cut into raw chunks, what the call
\* yields is what the decoding of the whole body, line by line, yields: at any
\* moment a prefix of it, and all of it, with the same end (normal or the same
\* exception), once the generator has run out.
C2_ChunkingDoesNotChangeFragments ==
    \A c \in Calls :
        (Streaming(c) /\ call[c].pc /= "idle")
        => LET e == Expected(inp[c].body) IN
           /\ IsPrefix(call[c].yielded, e.yielded)
           /\ RanOut(c) => /\ call[c].yielded = e.yielded
                           /\ call[c].err.type = e.exc
                           /\ (call[c].pc = "raised") = (e.exc /= "")

\* Two fragments are out, and the chunk that followed the second line ended
\* inside the "data: " prefix of the third: the buffer holds "dat".
C2_Witness ==
    \E c \in Calls :
        /\ Streaming(c)
        /\ Len(call[c].yielded) = 2
        /\ inp[c].body = JoinLines(<<GoodLine("a"), GoodLine("b"), DoneLine>>)
        /\ call[c].pc = "suspended"
        /\ call[c].buf = Take(DataPrefix, 3)

\* C3: in a 200 stream, a data line of valid JSON without the nested fields
\* never raises: in a body of good lines and such lines the call ends
\* normally, having yielded the contents of the good lines and nothing else.
C3_MissingFieldsAreSkipped ==
    \A c \in Calls :
        (RanOut(c) /\ Streaming(c) /\ Terminated(c)
            /\ Range(LinesOf(c)) \subseteq GoodLines \cup MissingFieldLines)
        => /\ call[c].pc = "done"
           /\ call[c].err = NoErr
           /\ call[c].yielded = GoodFragments(LinesOf(c))

\* An empty choices list: [][0] raises IndexError, which nothing catches.
C3_Witness ==
    \E c \in Calls :
        /\ Streaming(c)
        /\ inp[c].body = JoinLines(<<GoodLine("a"), DataLine(Braces(Field("choices", Brackets(<<>>)))),
                                     GoodLine("b")>>)
        /\ call[c].pc = "raised"
        /\ call[c].err.type = "IndexError"
        /\ call[c].yielded = <<JStr(<<"a">>)>>

\* The decimal value of a run of digits.
\* What a caller reads back from the message of the status error:
\* the digits after the fixed head, and the text after " - ".
MsgDigits(msg) == Take(Tail(msg), DigitRun(Tail(msg)))
MsgStatus(msg) == StrToInt(MsgDigits(msg))
MsgBody(msg) == Drop(msg, 1 + Len(MsgDigits(msg)) + 3)
MsgShaped(msg) ==
    /\ msg /= <<>>
    /\ Head(msg) = ApiErrorHead
    /\ MsgDigits(msg) /= <<>>
    /\ Len(msg) >= 1 + Len(MsgDigits(msg)) + 3
    /\ SubSeq(msg, 2 + Len(MsgDigits(msg)), 4 + Len(MsgDigits(msg))) = <<SP, "-", SP>>

\* A call answered with a non-success status.
Refused(c) ==
    inp[c].kind /= "none" /\ ~inp[c].fail /\ inp[c].status \in ErrorStatuses

\* C4: generate and generate_stream, answered with a non-success status, fail
\* with the status error, whose message carries exactly that status and the
\* whole text of the response body; nothing is returned and nothing yielded.
\* (The only other end of such a call is its cancellation by the caller.)
C4_NonSuccessStatusRaisesWithStatusAndBody ==
    \A c \in Calls :
        Refused(c)
        => /\ call[c].yielded = <<>>
           /\ call[c].result = NoValue
           /\ call[c].lines = 0
           /\ call[c].pc \in {"idle", "posting", "error_text", "raised", "cancelled"}
           /\ call[c].pc = "raised"
                => /\ call[c].err.type = "Exception"
                   /\ MsgShaped(call[c].err.msg)
                   /\ MsgStatus(call[c].err.msg) = inp[c].status
                   /\ \E encoding \in Encodings(inp[c].ctype) :
                        /\ Decode(inp[c].body, encoding).exc = ""
                        /\ MsgBody(call[c].err.msg) = Decode(inp[c].body, encoding).text

\* Status 401 with a body that is not UTF-8: response.text() raises
\* UnicodeDecodeError, and the exception that leaves the call has no status.
C4_Witness ==
    \E c \in Calls :
        /\ inp[c].kind = "generate"
        /\ inp[c].status = 401
        /\ inp[c].body = <<BadByte>>
        /\ inp[c].ctype = JsonType
        /\ call[c].pc = "raised"
        /\ call[c].err = Err("UnicodeDecodeError", <<>>)
        /\ call[c].result = NoValue

\* C5: with a missing or empty API key the constructor fails with the
\* configuration error (ValueError) and no request was or is ever sent; a
\* request is only ever sent by a client holding the configured, non-empty key.
C5_MissingKeyFailsAtConstruction ==
    /\ (client.state /= "new" /\ Falsy(cfg.key))
         => /\ client.state = "failed"
            /\ client.err = Err("ValueError", KeyMissingText)
    /\ client.state /= "ready" => \A c \in Calls : call[c] = IdleCall
    /\ \A c \in Calls :
         call[c].req.sent
           => /\ ~Falsy(cfg.key)
              /\ call[c].req.auth = <<"Bearer ", cfg.key>>

C5_Witness ==
    /\ client.state = "failed"
    /\ cfg.key = ""
    /\ client.err.type = "ValueError"
    /\ \A c \in Calls : ~call[c].req.sent

\* Index of the first line of ls that is the sentinel, 0 when there is none.
RECURSIVE FirstDone(_, _)
FirstDone(ls, i) ==
    IF i > Len(ls) THEN 0
    ELSE IF Spell(ls[i]) = Spell(DoneLine) THEN i
    ELSE FirstDone(ls, i + 1)

\* C6: in a 200 stream whose k-th line is "data: [DONE]", no line after the
\* k-th is ever taken, the fragments are those of the lines before it, and
\* the call that takes the k-th line ends there, normally.
C6_SentinelEndsTheSequence ==
    \A c \in Calls :
        (Streaming(c) /\ call[c].pc /= "idle")
        => LET ls == LinesOf(c)
               k == FirstDone(ls, 1)
           IN  k /= 0
               => /\ call[c].lines <= k
                  /\ IsPrefix(call[c].yielded, Expected(JoinLines(Take(ls, k - 1))).yielded)
                  /\ call[c].lines = k => call[c].pc = "done" /\ call[c].err = NoErr
                  /\ call[c].pc = "done" =>
                        call[c].yielded = Expected(JoinLines(Take(ls, k - 1))).yielded

\* The sentinel was the first line, a good line follows it and has arrived.
C6_Witness ==
    \E c \in Calls :
        /\ inp[c].body = JoinLines(<<DoneLine, GoodLine("a")>>)
        /\ call[c].pc = "done"
        /\ call[c].lines = 1
        /\ call[c].buf = GoodLine("a") \o <<NL>>
        /\ call[c].yielded = <<>>

\* C7: in a 200 stream of good lines and data lines that are not JSON, in any
\* mix, followed by the sentinel, the call ends normally and has yielded the
\* contents of the good lines, in order: as many fragments as good lines.
C7_InvalidJsonIsSkipped ==
    \A c \in Calls :
        (RanOut(c) /\ Streaming(c) /\ Terminated(c)
            /\ LET ls == LinesOf(c) IN
               /\ ls /= <<>>
               /\ ls[Len(ls)] = DoneLine
               /\ \A i \in 1..(Len(ls) - 1) :
                    ls[i] \in GoodLines \cup InvalidJsonLines \cup RaisingJsonLines)
        => /\ call[c].pc = "done"
           /\ call[c].err = NoErr
           /\ call[c].yielded = GoodFragments(LinesOf(c))
           /\ Len(call[c].yielded) = Cardinality({i \in 1..Len(LinesOf(c)) : LinesOf(c)[i] \in GoodLines})

\* The payload of the second line is a thousand opening brackets: json.loads
\* raises RecursionError, which line 109 does not catch; the good third line
\* is never decoded.
C7_Witness ==
    \E c \in Calls :
        /\ Streaming(c)
        /\ inp[c].body = JoinLines(<<GoodLine("a"), DataLine(<<BracketsRun>>),
                                     GoodLine("b"), DoneLine>>)
        /\ call[c].pc = "raised"
        /\ call[c].err.type = "RecursionError"
        /\ call[c].lines = 2
        /\ call[c].yielded = <<JStr(<<"a">>)>>

Released(c) == call[c].session /= "open" /\ call[c].response /= "open"

\* C8: the connection of a generate_stream call is released on every exit:
\* when the call is over (exhausted, failed, or closed after the consumer
\* dropped it) the session and the response are closed, and a generator
\* dropped at its yield is always closed eventually.
C8_ConnectionReleasedOnEveryExit ==
    /\ [](\A c \in Calls :
            (inp[c].kind = "stream" /\ call[c].pc \in Over)
              => Released(c) /\ call[c].session = "closed")
    /\ \A c \in Calls :
         (call[c].pc = "abandoned") ~> (call[c].pc = "closed" /\ Released(c))

\* The consumer took the first fragment only and dropped the generator, and
\* the event loop was closed before it closed the generator: the session and
\* the response are open, and no step is left that closes them.
C8_Witness ==
    \E c \in Calls :
        /\ call[c].pc = "orphaned"
        /\ Len(call[c].yielded) = 1
        /\ call[c].session = "open"
        /\ call[c].response = "open"

\* The contents of the well-formed envelopes, as the bytes between the quotes.
EnvelopeContents == {<<"a">>, <<"a", SP, "b">>, <<>>, <<Chr(160)>>}

\* C9: generate, answered 200 with a well-formed envelope, returns the string
\* at choices[0].message.content, whatever the (non-empty) prompt.
C9_GenerateReturnsContent ==
    \A c \in Calls :
        (Completed(c) /\ inp[c].kind = "generate" /\ inp[c].status = OkStatus
            /\ ~inp[c].fail /\ inp[c].prompt /= <<>>)
        => /\ \A x \in EnvelopeContents :
                inp[c].body = Envelope(Q(x))
                => /\ call[c].pc = "returned"
                   /\ call[c].result = JStr(Decode(x, EncodingOf(inp[c].ctype)).text)
                   /\ call[c].err = NoErr
                   /\ call[c].req.prompt = inp[c].prompt
           /\ inp[c].body = BigIntEnvelope
                => /\ call[c].pc = "returned"
                   /\ call[c].result = JStr(<<"a">>)
                   /\ call[c].err = NoErr

\* The envelope is answered as text/plain: response.json() raises
\* ContentTypeError and nothing is returned.
C9_Witness ==
    \E c \in Calls :
        /\ inp[c].kind = "generate"
        /\ inp[c].status = OkStatus
        /\ inp[c].body = Envelope(Q(<<"a">>))
        /\ inp[c].ctype = ContentType("text/plain", "")
        /\ call[c].pc = "raised"
        /\ call[c].err.type = "ContentTypeError"
        /\ call[c].result = NoValue

\* The errors the code raises by a raise statement of its own, or passes on
\* from the transport; ProtocolDecodeError is the kind the claim names.
ClassifiedErrors == {"ValueError", "ClientError", "Exception", "ProtocolDecodeError"}

\* C10: generate, answered 200 with a JSON envelope without the expected
\* fields, fails with a ProtocolDecodeError and with no unclassified error.
C10_MissingEnvelopeFieldsAreDecodeErrors ==
    \A c \in Calls :
        (Completed(c) /\ inp[c].kind = "generate" /\ inp[c].status = OkStatus
            /\ inp[c].body \in MissingFieldEnvelopes)
        => /\ call[c].pc = "raised"
           /\ call[c].err.type \in ClassifiedErrors

C10_Witness ==
    \E c \in Calls :
        /\ call[c].pc = "raised"
        /\ inp[c].kind = "generate"
        /\ inp[c].body = Braces(Field("choices", Brackets(<<>>)))
        /\ call[c].err.type = "IndexError"

\* The kind a failure is reported as: the class of the exception the caller
\* receives.  The three classes the code raises or passes on stand for three of
\* the four kinds; no class of the program stands for ProtocolDecodeError.
KindOfType(ty) ==
    CASE ty = "ValueError" -> "ConfigurationError"
      [] ty = "ClientError" -> "TransportError"
      [] ty = "Exception" -> "HttpStatusError"
      [] ty = "ProtocolDecodeError" -> "ProtocolDecodeError"
      [] OTHER -> "unclassified"

\* The cause of the failure of call c, as the kind the claim gives it.
CauseOfFailure(c) ==
    IF inp[c].fail THEN "TransportError"
    ELSE IF inp[c].status /= OkStatus THEN "HttpStatusError"
    ELSE "ProtocolDecodeError"

\* C11: every failure of the construction, of generate and of generate_stream
\* is reported as exactly one of the four kinds, the kind of its cause: a
\* missing key as ConfigurationError, a connection failure as TransportError,
\* a non-success status as HttpStatusError, a success response that cannot be
\* decoded as ProtocolDecodeError; so no two causes share a kind.
C11_FailuresAreOfFourDistinctKinds ==
    /\ client.state = "failed" => KindOfType(client.err.type) = "ConfigurationError"
    /\ \A c \in Calls :
         call[c].pc = "raised" => KindOfType(call[c].err.type) = CauseOfFailure(c)

\* An envelope that is not JSON at all: json.JSONDecodeError leaves generate.
C11_Witness ==
    \E c \in Calls :
        /\ inp[c].kind = "generate"
        /\ inp[c].status = OkStatus
        /\ inp[c].body = <<"{">>
        /\ call[c].pc = "raised"
        /\ call[c].err.type = "JSONDecodeError"

\* The data lines whose delta has no content, or the empty string as content.
EmptyContentLines ==
    { DataLine(Braces(Field("choices", Brackets(Braces(Field("delta", Braces(<<>>))))))),
      DataLine(DeltaFrame(Q(<<>>))) }

\* C12: every fragment generate_stream yields is a non-empty string, whatever
\* the lines received; a line whose delta content is absent or the empty
\* string yields nothing (as many fragments as the other lines yield).
C12_FragmentsAreNonEmptyStrings ==
    \A c \in Calls :
        /\ \A i \in 1..Len(call[c].yielded) :
             call[c].yielded[i].t = "str" /\ call[c].yielded[i].s /= <<>>
        /\ (RanOut(c) /\ Streaming(c) /\ Terminated(c))
             => LET ls == LinesOf(c)
                    kept == SelectSeq(ls, LAMBDA l : l \notin EmptyContentLines)
                IN  call[c].yielded = Expected(JoinLines(kept)).yielded

\* The content of the second line is the number 5: it is yielded as it is.
C12_Witness ==
    \E c \in Calls :
        /\ Streaming(c)
        /\ inp[c].body = JoinLines(<<GoodLine("a"), DataLine(DeltaFrame(<<"5">>)) \o <<CR>>,
                                     GoodLine("b"), DoneLine>>)
        /\ call[c].pc = "done"
        /\ call[c].yielded = <<JStr(<<"a">>), JNum(<<"5">>), JStr(<<"b">>)>>

\* The fragments of the lines of ls that carry one, each line taken alone.
RECURSIVE FragmentsOf(_)
FragmentsOf(ls) ==
    IF ls = <<>> THEN <<>>
    ELSE LET o == ProcessLine(Head(ls)) IN
         IF o.act = "yield" THEN <<o.val>> \o FragmentsOf(Tail(ls))
         ELSE FragmentsOf(Tail(ls))

\* No line of the body of call c is the sentinel.
NoSentinel(c) ==
    \A i \in 1..Len(LinesOf(c)) : ~IsSentinel(Strip(Spell(LinesOf(c)[i])))

\* C13: a 200 stream that closes without ever carrying "data: [DONE]" ends
\* the sequence normally: the call runs to the end of the body, has yielded
\* the fragment of every data line that carries one, and raises nothing.
C13_CloseWithoutSentinelEndsNormally ==
    \A c \in Calls :
        (RanOut(c) /\ Streaming(c) /\ TextBody(c) /\ NoSentinel(c))
        => /\ call[c].pc = "done"
           /\ call[c].err = NoErr
           /\ call[c].yielded = FragmentsOf(LinesOf(c))

\* The body closes after three lines, none the sentinel; the second is the
\* JSON number 5, and (5).get raises AttributeError out of the generator.
C13_Witness ==
    \E c \in Calls :
        /\ Streaming(c)
        /\ inp[c].body = JoinLines(<<GoodLine("a"), DataLine(<<"5">>), GoodLine("b")>>)
        /\ call[c].pc = "raised"
        /\ call[c].err.type = "AttributeError"
        /\ call[c].lines = 2
        /\ call[c].wire = <<>>

\* C14: generate_stream answered with a status that is not 200 raises the
\* status error before its first element: no fragment is ever yielded and no
\* line of the body is ever taken as a line of the stream, even when the body
\* is made of "data: {...}" lines; the body is only read as the error text.
C14_NoFragmentBeforeStatusError ==
    \A c \in Calls :
        (inp[c].kind = "stream" /\ ~inp[c].fail /\ inp[c].status /= OkStatus)
        => /\ call[c].yielded = <<>>
           /\ call[c].lines = 0
           /\ call[c].pc \notin {"reading", "suspended", "abandoned", "orphaned",
                                 "done", "closed"}
           /\ call[c].response /= "none"
                => call[c].pc \in {"error_text", "raised", "cancelled"}
           /\ (call[c].pc = "raised" /\ TextBody(c) /\ Encodings(inp[c].ctype) = {"utf-8"})
                => /\ call[c].err.type = "Exception"
                   /\ call[c].err.msg = StatusErrorMsg(inp[c].status, Utf8Decode(inp[c].body).text)
           /\ call[c].pc = "raised"
                => \E encoding \in Encodings(inp[c].ctype) :
                     LET error_text == Decode(inp[c].body, encoding) IN
                     call[c].err =
                        IF error_text.exc /= "" THEN Err(error_text.exc, <<>>)
                        ELSE Err("Exception", StatusErrorMsg(inp[c].status, error_text.text))

\* Status 201, and a body that would decode to one fragment.
C14_Witness ==
    \E c \in Calls :
        /\ inp[c].kind = "stream"
        /\ inp[c].status = 201
        /\ Expected(inp[c].body).yielded = <<JStr(<<"a">>)>>
        /\ call[c].pc = "raised"
        /\ call[c].yielded = <<>>
        /\ call[c].lines = 0

\* What a call with input i comes to when it runs alone and to its end:
\* how it ends, with which exception, result and fragments.
SoloOutcome(i) ==
    IF i.fail
    THEN [pc |-> "raised", err |-> Err("ClientError", <<>>), result |-> NoValue, yielded |-> <<>>]
    ELSE IF StatusRejected(i.status)
    THEN LET error_text == Decode(i.body, EncodingOf(i.ctype)) IN
         [pc |-> "raised",
          err |-> IF error_text.exc /= "" THEN Err(error_text.exc, <<>>)
                  ELSE Err("Exception", StatusErrorMsg(i.status, error_text.text)),
          result |-> NoValue, yielded |-> <<>>]
    ELSE IF i.kind = "generate"
    THEN LET r == ParseEnvelope(i.body, i.ctype) IN
         IF r.exc /= ""
         THEN [pc |-> "raised", err |-> Err(r.exc, <<>>), result |-> NoValue, yielded |-> <<>>]
         ELSE [pc |-> "returned", err |-> NoErr, result |-> r.val, yielded |-> <<>>]
    ELSE LET e == Expected(i.body) IN
         [pc |-> IF e.exc /= "" THEN "raised" ELSE "done",
          err |-> IF e.exc /= "" THEN Err(e.exc, <<>>) ELSE NoErr,
          result |-> NoValue, yielded |-> e.yielded]

IsSuffix(a, b) == Len(a) <= Len(b) /\ Drop(b, Len(b) - Len(a)) = a

\* C15: calls of generate and generate_stream interleaved on one client share
\* nothing: each call's request carries its own prompt, its connection
\* carries only its own body, its fragments and its end are those of the same
\* call run alone, and no step of one call changes anything of another call.
C15_InterleavedCallsAreIndependent ==
    /\ [](\A c \in Calls :
            inp[c].kind /= "none"
            => LET solo == SoloOutcome(inp[c]) IN
               /\ call[c].req.sent => call[c].req.prompt = inp[c].prompt
               /\ IsSuffix(call[c].buf \o call[c].wire, inp[c].body)
               /\ IsPrefix(call[c].yielded, solo.yielded)
               /\ call[c].pc \in {"returned", "done", "raised"}
                    => /\ call[c].pc = solo.pc
                       /\ call[c].err = solo.err
                       /\ call[c].result = solo.result
                       /\ call[c].yielded = solo.yielded)
    /\ [][\A c, d \in Calls :
            (c /= d /\ call'[c] /= call[c]) => call'[d] = call[d]]_vars

\* Both calls are in the middle of their streams: the first is suspended at
\* its yield, the second has part of its line buffered.
C15_Witness ==
    /\ call[1].pc = "suspended"
    /\ call[1].yielded = <<JStr(<<"a">>)>>
    /\ call[1].wire /= <<>>
    /\ call[2].pc = "reading"
    /\ call[2].buf = Take(GoodLine("b"), 9)
    /\ call[1].session = "open" /\ call[2].session = "open"

\* C16: with a non-empty key the construction succeeds; when no model name is
\* configured (None or the empty string) the client's model name is
\* "gpt-4-turbo", and a configured model name is kept unchanged; that name is
\* the model of every request the client sends.
C16_ModelNameDefaultsToGpt4Turbo ==
    (client.state /= "new" /\ cfg.key = "sk-1")
    => /\ client.state = "ready"
       /\ client.err = NoErr
       /\ cfg.model \in {PyNone, ""} => client.model_name = "gpt-4-turbo"
       /\ cfg.model = "gpt-4o" => client.model_name = "gpt-4o"
       /\ \A c \in Calls : call[c].req.sent => call[c].req.model = client.model_name

\* The model name is configured empty, and a request went out.
C16_Witness ==
    /\ cfg.key = "sk-1"
    /\ cfg.model = ""
    /\ client.state = "ready"
    /\ client.model_name = "gpt-4-turbo"
    /\ \E c \in Calls : call[c].req.sent /\ call[c].req.model = "gpt-4-turbo"

\* What the call yields and how it ends, against the decoding of lines ls.
DecodesAs(c, ls) ==
    LET e == Expected(JoinLines(ls)) IN
    /\ call[c].yielded = e.yielded
    /\ call[c].err.type = e.exc

\* C17 (as stated): with only trailing whitespace stripped from a line, a line
\* that does not start with "data: " is ignored; so a line with whitespace
\* before "data: " is neither decoded nor taken as the sentinel, and the call
\* comes to what it comes to without the lines that do not start so.
C17_OnlyTrailingWhitespaceIsStripped ==
    \A c \in Calls :
        (RanOut(c) /\ Streaming(c) /\ Terminated(c))
        => DecodesAs(c, SelectSeq(LinesOf(c),
                                  LAMBDA l : StartsWith(StripRight(l), DataPrefix)))

\* A line the reader hands out and the decoder turns into text: valid UTF-8
\* of at most 131072 bytes with its newline.
Readable(l) == IsUtf8(l) /\ ByteLen(l) + 1 <= HighWater

\* C17 (amended): a line is decoded as UTF-8 and whitespace is stripped from
\* both its ends.  A readable line that does not then start with "data: " is
\* ignored, and a readable line with whitespace before "data: " counts as
\* the same line without it: it is decoded, or taken as the sentinel.  A
\* line that is not valid UTF-8 ends the call with UnicodeDecodeError, and a
\* line longer than the reader hands out with ValueError, whatever either
\* starts with.
C17_BothEndsAreStripped ==
    \A c \in Calls :
        (RanOut(c) /\ Streaming(c) /\ Terminated(c))
        => LET ls == LinesOf(c)
               kept == SelectSeq(ls,
                          LAMBDA l : Readable(l)
                                       => StartsWith(StripRight(StripLeft(l)), DataPrefix))
           IN  /\ DecodesAs(c, [i \in 1..Len(kept) |->
                                   IF Readable(kept[i]) THEN StripLeft(kept[i])
                                   ELSE kept[i]])
               /\ \A i \in 1..Len(ls) :
                    /\ (call[c].lines >= i /\ ByteLen(ls[i]) + 1 <= HighWater
                            /\ ~IsUtf8(ls[i]))
                         => /\ call[c].lines = i
                            /\ call[c].pc = "raised"
                            /\ call[c].err.type = "UnicodeDecodeError"
                    /\ ByteLen(ls[i]) + 1 > HighWater => call[c].lines < i

\* The sentinel after a space ended the stream before the third line.
C17_Witness ==
    \E c \in Calls :
        /\ Streaming(c)
        /\ inp[c].body = JoinLines(<<GoodLine("a"), <<SP>> \o DoneLine, GoodLine("b")>>)
        /\ call[c].pc = "done"
        /\ call[c].lines = 2
        /\ call[c].yielded = <<JStr(<<"a">>)>>

\* C18: generate_stream hands each fragment to the consumer before it takes
\* the next line.  At every moment the fragments delivered are those of all
\* the lines taken so far (none is held back); a step takes at most one line,
\* only when the consumer has asked for the next element, and delivers at most
\* one fragment, that of the line it took; and a line can be taken as soon as
\* it is complete, whatever of the body is still to come.
C18_FragmentDeliveredBeforeNextLine ==
    /\ [](\A c \in Calls :
            (Streaming(c) /\ call[c].pc /= "idle")
            => LET taken == Take(RawLines(inp[c].body), call[c].lines) IN
               /\ call[c].yielded = RunLines(taken, <<>>).yielded
               /\ call[c].pc = "suspended"
                    => /\ call[c].lines >= 1
                       /\ ProcessLine(taken[call[c].lines]) =
                            Outcome("yield", call[c].yielded[Len(call[c].yielded)], "")
               /\ (call[c].pc = "reading" /\ Find(call[c].buf, NL) /= 0)
                    => ReadLineFrom(call[c].buf, call[c].wire = <<>>).ready)
    /\ [][\A c \in Calls :
            /\ call'[c].lines \in {call[c].lines, call[c].lines + 1}
            /\ Len(call'[c].yielded) \in {Len(call[c].yielded), Len(call[c].yielded) + 1}
            /\ call'[c].lines = call[c].lines + 1 => call[c].pc = "reading"
            /\ Len(call'[c].yielded) = Len(call[c].yielded) + 1
                 => /\ call'[c].lines = call[c].lines + 1
                    /\ call'[c].pc = "suspended"]_vars

\* The first fragment is with the consumer; the second line has arrived
\* whole and is not taken, and the rest of the body is still on the wire.
C18_Witness ==
    \E c \in Calls :
        /\ Streaming(c)
        /\ inp[c].body = JoinLines(<<GoodLine("a"), GoodLine("b"), DoneLine>>)
        /\ call[c].pc = "suspended"
        /\ call[c].lines = 1
        /\ call[c].yielded = <<JStr(<<"a">>)>>
        /\ call[c].buf = GoodLine("b") \o <<NL>>
        /\ call[c].wire /= <<>>

\* C19: a callback passed to generate_stream (or generate) is invoked with each
\* generated chunk, once per chunk and in order: when the call has ended
\* normally the callback has received exactly the fragments yielded (for
\* generate, the text returned).
C19_CallbackReceivesEveryChunk ==
    \A c \in Calls :
        (inp[c].callback /\ call[c].pc \in {"done", "returned"})
        => call[c].called = IF inp[c].kind = "stream" THEN call[c].yielded
                            ELSE <<call[c].result>>

\* The stream is over, one fragment was yielded, the callback never ran.
C19_Witness ==
    \E c \in Calls :
        /\ inp[c].callback
        /\ inp[c].kind = "stream"
        /\ call[c].pc = "done"
        /\ call[c].yielded = <<JStr(<<"a">>)>>
        /\ call[c].called = <<>>

RECURSIVE SumSeq(_)
SumSeq(ns) == IF ns = <<>> THEN 0 ELSE Head(ns) + SumSeq(Tail(ns))

\* The word counts of the outline of the dialog, volume by volume.
OutlineWords ==
    LET vs == VolumesOfOutline(dlg.outline) IN
    [v \in 1..Len(vs) |->
        SumSeq([k \in 1..Len(ChaptersOfVolume(vs[v])) |->
                    Len(ChaptersOfVolume(vs[v])[k].text)])]

\* C20: when _calculate_statistics has run on an outline, the totals shown
\* agree: the total of chapters is the sum of the volumes' chapter counts and
\* the number of rows of the chapter table; the total of words is the sum of
\* the volumes' word counts; the completed chapters are the chapters with a
\* word count above 0, at most the total; with no chapter the average length
\* and the completion rate are 0.  The call never ends in a division error.
C20_StatisticsTotalsAreConsistent ==
    /\ dlg.pc /= "raised"
    /\ dlg.pc = "done"
         => LET vs == VolumesOfOutline(dlg.outline)
                vstats == dlg.volume_stats
                cstats == dlg.chapter_stats
            IN  /\ Len(vstats) = Len(vs)
                /\ dlg.volume_rows = Len(vs) /\ Len(dlg.volume_table) = Len(vs)
                /\ dlg.total_chapters = SumSeq([v \in 1..Len(vstats) |-> vstats[v].chapter_count])
                /\ dlg.total_chapters = SumSeq([v \in 1..Len(vs) |-> Len(ChaptersOfVolume(vs[v]))])
                /\ dlg.total_chapters = dlg.chapter_rows
                /\ dlg.chapter_rows = Len(cstats) /\ Len(dlg.chapter_table) = Len(cstats)
                /\ dlg.labels.chapter_count = IntToStr(dlg.total_chapters)
                /\ dlg.total_words = SumSeq([v \in 1..Len(vstats) |-> vstats[v].word_count])
                /\ dlg.total_words = SumSeq(OutlineWords)
                /\ \A v \in 1..Len(vs) :
                     /\ vstats[v].word_count = OutlineWords[v]
                     /\ dlg.volume_table[v][3] = ThousandsStr(OutlineWords[v])
                /\ dlg.labels.word_count = ThousandsStr(dlg.total_words)
                /\ dlg.completed_chapters =
                     Cardinality({k \in 1..Len(cstats) : cstats[k].word_count > 0})
                /\ dlg.completed_chapters =
                     SumSeq([v \in 1..Len(vstats) |-> vstats[v].completed_chapters])
                /\ dlg.completed_chapters <= dlg.total_chapters
                /\ dlg.labels.completed_chapters =
                     IntToStr(dlg.completed_chapters) \o <<SP, "/", SP>>
                        \o IntToStr(dlg.total_chapters)
                /\ dlg.progress \in 0..100
                /\ dlg.total_chapters = 0
                     => /\ dlg.labels.avg_chapter_length = <<"0", ".", "0", "0">>
                        /\ dlg.labels.completion_rate = <<"0", ".", "0", "0", "%">>
                        /\ dlg.progress = 0

\* Two volumes, the first without a "chapters" entry, the second with an
\* empty list: no chapter at all, and the overview shows zeros.
C20_Witness ==
    /\ dlg.pc = "done"
    /\ dlg.outline.volumes =
         <<VolumeWithoutChapters, [has_chapters |-> TRUE, chapters |-> <<>>]>>
    /\ dlg.total_chapters = 0
    /\ dlg.labels.volume_count = <<"2">>
    /\ dlg.labels.avg_chapter_length = <<"0", ".", "0", "0">>
    /\ dlg.labels.completed_chapters = <<"0", SP, "/", SP, "0">>
    /\ dlg.progress = 0

====
